---- MODULE Spec2Model ----
(***************************************************************************)
(* The XMODEM-CRC sender of utils/xmodem_send.py as a state machine.       *)
(*                                                                         *)
(* One action is one blocking step of the sender: a ser.read(1) together   *)
(* with everything the code does with its result up to the next read, or a *)
(* ser.write together with the code leading up to it.  The peer is free:   *)
(* every read returns any byte of RxBytes or nothing.                      *)
(*                                                                         *)
(* Time is counted in ticks of the serial port's own read timeout          *)
(* (timeout=0.1 at xmodem_send.py:223): a read that returns nothing takes  *)
(* one tick, a read that returns a byte takes none or one.  A deadline     *)
(* "time.time() + t" is kept as the number of ticks left before it.        *)
(***************************************************************************)
EXTENDS Integers, Sequences, FiniteSets, TLC

(* Control bytes and sizes, xmodem_send.py:29-37 *)
SOH == 1
EOT == 4
ACK == 6
NAK == 21
CAN == 24
CHAR_C == 67
BLOCK_SIZE == 128
PAD_BYTE == 26

(* Bounds of the model *)
initial_timeout == 2
per_try_timeout == 2
MaxRetries == 2
MaxBlocks == 2
TailLen == 3

VARIABLES
    pc,          \* where the sender is: hs_first, hs_scan, send, await, eot, eot1, eot2, done;
                 \* call, written for send_block called on its own
    left,        \* ticks left before the deadline of the wait in progress, 0 outside a wait
    b,           \* wait_for_receiver_crc_request's b: << >> unassigned, else <<byte>>
    r,           \* send_block's r and send_eot's r: << >> unassigned or None, else <<byte>>
    r2,          \* send_eot's r2, likewise
    data,        \* the file's bytes
    max_retries, \* xmodem_crc_send's max_retries
    sent,        \* xmodem_crc_send's sent (byte offset)
    block_no,    \* xmodem_crc_send's block_no
    attempt,     \* xmodem_crc_send's attempt
    ret,         \* how xmodem_crc_send ended: none, True, False, raise
    err,         \* what it reported: <<"none">>, or the [ERROR] line or exception as a tuple
    wire,        \* every ser.write so far, in order
    hsElapsed,   \* ticks spent in wait_for_receiver_crc_request
    fails,       \* NAKs and timeouts that answered the current block so far
    txCount,     \* times the current block was written so far
    failsBefore, \* NAKs and timeouts that answered earlier blocks
    ser,         \* xmodem_send.py main's ser: unopened, open, closed
    main_pc,     \* where xmodem_send.py main is: start, transfer, tail, exited
    exit_code,   \* how main ended: none, "0".."3" for a return, or the exception's name
    echoed,      \* what main's post-transfer loop printed last
    flash_data,  \* flash-split.py: the image handed to parse_flash
    results,     \* parse_flash's results
    section_i,   \* parse_flash's place in FLASH_SECTIONS: entries done so far
    save_i,      \* save_sections_to_files' place in results: reports done so far
    saved_count, \* save_sections_to_files' saved_count
    written,     \* the files written so far, in order: name and contents
    printed,     \* what save_sections_to_files printed so far, line by line
    flash_sections, \* flash-split.py's global FLASH_SECTIONS as it is now; << >> where
                 \* the program run is xmodem_send.py, which has none
    decodes,     \* the calls of parse_flash that have returned
    replies_read \* the receiver's answers to written packets that the sender has read

main_vars == <<ser, main_pc, exit_code, echoed>>
save_vars == <<save_i, saved_count, written, printed>>
table_vars == <<flash_sections, decodes>>
flash_vars == <<flash_data, results, section_i, save_vars, table_vars>>

vars == <<pc, left, b, r, r2, data, max_retries, sent, block_no, attempt, ret, err,
          wire, hsElapsed, fails, txCount, failsBefore, replies_read,
          main_vars, flash_vars>>

Min(a, c) == IF a < c THEN a ELSE c

(***************************************************************************)
(* crc16_ccitt, xmodem_send.py:40-53.  Python's ^ on 16-bit values is      *)
(* computed nibble by nibble from a table of 4-bit exclusive-ors.          *)
(***************************************************************************)
RECURSIVE XorBits(_, _, _)
XorBits(a, c, n) ==
    IF n = 0 THEN 0
    ELSE (((a % 2) + (c % 2)) % 2) + 2 * XorBits(a \div 2, c \div 2, n - 1)

XorTab == [a \in 0..15 |-> [c \in 0..15 |-> XorBits(a, c, 4)]]

Xor8(a, c) == XorTab[a \div 16][c \div 16] * 16 + XorTab[a % 16][c % 16]

Xor16(a, c) == Xor8(a \div 256, c \div 256) * 256 + Xor8(a % 256, c % 256)

(* F(x), with x worked out once, before F is *)
Bind(x, F(_)) == CHOOSE v \in { F(y) : y \in {x} } : TRUE

(* lines 49-52: one round, shift left and xor the polynomial in if bit 15 was set *)
crc_round(crc, poly) ==
    IF crc >= 32768
    THEN Xor16((crc * 2) % 65536, poly)
    ELSE (crc * 2) % 65536

(* line 48: for _ in range(8) *)
RECURSIVE crc_bits(_, _, _)
crc_bits(crc, poly, n) ==
    IF n = 0 THEN crc
    ELSE Bind(crc_round(crc, poly), LAMBDA c : crc_bits(c, poly, n - 1))

(* lines 47-52 with line 47 as crc ^= b: the byte goes into the low half *)
crc_byte_low(crc, byte, poly) ==
    Bind(Xor16(crc, byte), LAMBDA c : crc_bits(c, poly, 8))

(* lines 47-52: crc ^= b << 8, then the eight rounds *)
crc_byte(crc, byte, poly) ==
    Bind(Xor16(crc, byte * 256), LAMBDA c : crc_bits(c, poly, 8))

(* line 46: "for b in data", bytes lo..hi in order, folded by halves *)
RECURSIVE crc_range(_, _, _, _, _)
crc_range(data_, lo, hi, crc, poly) ==
    IF lo > hi THEN crc
    ELSE IF lo = hi THEN crc_byte(crc, data_[lo], poly)
    ELSE Bind(crc_range(data_, lo, (lo + hi) \div 2, crc, poly),
              LAMBDA c : crc_range(data_, ((lo + hi) \div 2) + 1, hi, c, poly))

crc16_ccitt(data_) ==
    Bind(data_, LAMBDA d : crc_range(d, 1, Len(d), 0, 4129) % 65536)

(***************************************************************************)
(* send_block's packet, xmodem_send.py:91-103                              *)
(***************************************************************************)
(* lines 91-92, with zero bytes as the filler *)
padded_with_zero(chunk_) ==
    IF Len(chunk_) < BLOCK_SIZE
    THEN chunk_ \o [i \in 1..(BLOCK_SIZE - Len(chunk_)) |-> 0]
    ELSE chunk_

(* lines 91-92: chunk += bytes([PAD_BYTE]) * (BLOCK_SIZE - len(chunk)) *)
padded(chunk_) ==
    IF Len(chunk_) < BLOCK_SIZE
    THEN chunk_ \o [i \in 1..(BLOCK_SIZE - Len(chunk_)) |-> PAD_BYTE]
    ELSE chunk_

(* lines 96-103, with the block number attempt more than it should be *)
build_pkt_renumbered(block_no_, chunk_) ==
    Bind(padded(chunk_), LAMBDA payload :
        Bind(crc16_ccitt(payload), LAMBDA crc :
            <<SOH, (block_no_ + attempt) % 256, 255 - ((block_no_ + attempt) % 256)>>
                \o payload
                \o <<(crc \div 256) % 256, crc % 256>>))

(* lines 96-103 without line 102: the low CRC byte only *)
build_pkt_one_crc_byte(block_no_, chunk_) ==
    Bind(padded(chunk_), LAMBDA payload :
        Bind(crc16_ccitt(payload), LAMBDA crc :
            <<SOH, block_no_ % 256, 255 - (block_no_ % 256)>>
                \o payload
                \o <<crc % 256>>))

(* lines 96-103 with lines 102 and 103 exchanged: low CRC byte first *)
build_pkt_crc_swapped(block_no_, chunk_) ==
    Bind(padded(chunk_), LAMBDA payload :
        Bind(crc16_ccitt(payload), LAMBDA crc :
            <<SOH, block_no_ % 256, 255 - (block_no_ % 256)>>
                \o payload
                \o <<crc % 256, (crc \div 256) % 256>>))

(* lines 96-103 with the CRC of line 101 taken over the chunk before padding *)
build_pkt_crc_unpadded(block_no_, chunk_) ==
    Bind(padded(chunk_), LAMBDA payload :
        Bind(crc16_ccitt(chunk_), LAMBDA crc :
            <<SOH, block_no_ % 256, 255 - (block_no_ % 256)>>
                \o payload
                \o <<(crc \div 256) % 256, crc % 256>>))

(* lines 96-103 with the two CRC bytes complemented, as a CRC with a final   *)
(* exclusive-or of 0xFFFF would be                                          *)
build_pkt_crc_complemented(block_no_, chunk_) ==
    Bind(padded(chunk_), LAMBDA payload :
        Bind(crc16_ccitt(payload), LAMBDA crc :
            <<SOH, block_no_ % 256, 255 - (block_no_ % 256)>>
                \o payload
                \o <<255 - ((crc \div 256) % 256), 255 - (crc % 256)>>))

(* lines 96-103 *)
build_pkt(block_no_, chunk_) ==
    Bind(padded(chunk_), LAMBDA payload :
        Bind(crc16_ccitt(payload), LAMBDA crc :
            <<SOH, block_no_ % 256, 255 - (block_no_ % 256)>>
                \o payload
                \o <<(crc \div 256) % 256, crc % 256>>))

(***************************************************************************)
(* The files sent and the peer's bytes                                     *)
(***************************************************************************)
FileByte(i) == (i * 37 + 11) % 256

FileLens == {0} \cup { BLOCK_SIZE * k : k \in 1..MaxBlocks }
                \cup { BLOCK_SIZE * (k - 1) + TailLen : k \in 1..MaxBlocks }

Files == { [i \in 1..n |-> FileByte(i)] : n \in FileLens }

(* What the peer may send: the bytes the sender distinguishes and one it does not *)
RxBytes == {ACK, NAK, CAN, CHAR_C, SOH}

(* ser.read(1): <<bytes read, ticks taken>> *)
ReadOutcomes == { <<<< >>, 1>> } \cup { <<<<x>>, dt>> : x \in RxBytes, dt \in {0, 1} }

total == Len(data)

(* lines 157-158 *)
end == Min(sent + BLOCK_SIZE, total)

(* line 158 as data[0:end - sent]: every chunk is cut from the file's start *)
chunk_from_start == SubSeq(data, 1, end - sent)

chunk == SubSeq(data, sent + 1, end)

HsPcs == {"hs_first", "hs_scan"}

(* hsElapsed stops counting one tick past initial_timeout *)
HsCap == initial_timeout + 1

Init ==
    /\ pc = "hs_first"
    /\ left = initial_timeout
    /\ b = << >>
    /\ r = << >>
    /\ r2 = << >>
    /\ data \in Files
    /\ max_retries \in 0..MaxRetries
    /\ sent = 0
    /\ block_no = 1
    /\ attempt = 0
    /\ ret = "none"
    /\ err = <<"none">>
    /\ wire = << >>
    /\ hsElapsed = 0
    /\ fails = 0
    /\ txCount = 0
    /\ failsBefore = 0
    /\ ser = "open"
    /\ main_pc = "transfer"
    /\ exit_code = "none"
    /\ echoed = << >>
    /\ flash_data = << >>
    /\ results = << >>
    /\ section_i = 0
    /\ save_i = 0
    /\ saved_count = 0
    /\ written = << >>
    /\ printed = << >>
    /\ flash_sections = << >>
    /\ decodes = 0
    /\ replies_read = 0

(* The time a ser.read(1) with outcome o takes, counted while the handshake lasts *)
Read(o) ==
    /\ hsElapsed' = IF pc \in HsPcs THEN Min(hsElapsed + o[2], HsCap) ELSE hsElapsed

(* xmodem_crc_send ends: "return False" after an [ERROR] line, "return True", *)
(* or an exception that leaves it                                            *)
Return(value, report) ==
    /\ pc' = "done"
    /\ ret' = value
    /\ err' = report

(***************************************************************************)
(* wait_for_receiver_crc_request, xmodem_send.py:66-83, and lines 148-160  *)
(***************************************************************************)
(* line 72: end = time.time() + max(0.0, timeout - 0.0), as ticks left *)
scan_window(timeout) == IF timeout - 0 > 0 THEN timeout - 0 ELSE 0

(* line 156 as "while sent <= total" *)
more_to_send_or_none(sent_, total_) == sent_ <= total_

(* line 156: while sent < total *)
more_to_send(sent_, total_) == sent_ < total_

(* lines 152-156 and 160: the loop is entered, or skipped for an empty file *)
EnterLoop ==
    /\ sent' = 0
    /\ block_no' = 1
    /\ IF more_to_send(0, total)
       THEN pc' = "send" /\ attempt' = 0
       ELSE pc' = "eot" /\ attempt' = attempt

(* line 68: read_with_timeout(ser, timeout), one ser.read(1) of its loop *)
HsFirstRead(o) ==
    /\ pc = "hs_first"
    /\ left > 0
    /\ Read(o)
    /\ IF o[1] = << >>
       THEN /\ left' = left - 1
            /\ UNCHANGED <<pc, b>>
       ELSE /\ b' = o[1]
            /\ left' = scan_window(initial_timeout)
            /\ pc' = "hs_scan"
    /\ UNCHANGED <<r, r2, data, max_retries, sent, block_no, attempt, ret, err, wire,
                   fails, txCount, failsBefore>>
    /\ UNCHANGED <<main_vars, flash_vars, replies_read>>

(* lines 69-70 and 148-150: nothing was read before the deadline *)
HsFirstTimeout ==
    /\ pc = "hs_first"
    /\ left = 0
    /\ Return("False", <<"NoHandshake">>)
    /\ UNCHANGED <<left, b, r, r2, data, max_retries, sent, block_no, attempt, wire,
                   hsElapsed, fails, txCount, failsBefore>>
    /\ UNCHANGED <<main_vars, flash_vars, replies_read>>

(* lines 74-75: b == CHAR_C *)
HsAccept ==
    /\ pc = "hs_scan"
    /\ b = <<CHAR_C>>
    /\ EnterLoop
    /\ left' = 0
    /\ UNCHANGED <<b, r, r2, data, max_retries, ret, err, wire,
                   hsElapsed, fails, txCount, failsBefore>>
    /\ UNCHANGED <<main_vars, flash_vars, replies_read>>

(* lines 76-77 and 148-150: time.time() >= end *)
HsDeadline ==
    /\ pc = "hs_scan"
    /\ b # <<CHAR_C>>
    /\ left = 0
    /\ Return("False", <<"NoHandshake">>)
    /\ UNCHANGED <<left, b, r, r2, data, max_retries, sent, block_no, attempt, wire,
                   hsElapsed, fails, txCount, failsBefore>>
    /\ UNCHANGED <<main_vars, flash_vars, replies_read>>

(* lines 78-83: nxt = ser.read(1); a byte replaces b, nothing read sleeps on *)
HsScanRead(o) ==
    /\ pc = "hs_scan"
    /\ b # <<CHAR_C>>
    /\ left > 0
    /\ Read(o)
    /\ left' = left - o[2]
    /\ b' = IF o[1] # << >> THEN o[1] ELSE b
    /\ UNCHANGED <<pc, r, r2, data, max_retries, sent, block_no, attempt, ret, err, wire,
                   fails, txCount, failsBefore>>
    /\ UNCHANGED <<main_vars, flash_vars, replies_read>>

(***************************************************************************)
(* The block loop of xmodem_crc_send, xmodem_send.py:156-181, and          *)
(* send_block, lines 86-119                                                *)
(***************************************************************************)
retries_exceeded_at_limit(attempt_, max_retries_) == attempt_ >= max_retries_

retries_exceeded_late(attempt_, max_retries_) == attempt_ > max_retries_ + 1

(* line 171: if attempt > max_retries *)
retries_exceeded(attempt_, max_retries_) == attempt_ > max_retries_

first_attempt_kept(previous) == previous

(* line 160: attempt = 0 at the top of each block's retry loop *)
first_attempt(previous) == 0

(* line 179 *)
(* line 179 with the commented-out lines 180-181 put back: 0 is skipped *)
next_block_no_skip_zero(n) == IF (n + 1) % 256 = 0 THEN 1 ELSE (n + 1) % 256

next_block_no(n) == (n + 1) % 256

(* line 175 as sent += BLOCK_SIZE: the padded length is counted *)
next_sent_padded(sent_, end_) == sent_ + BLOCK_SIZE

(* line 175: sent = end *)
next_sent(sent_, end_) == end_

reply_kind_no_cancel(r_) ==
    IF r_ = << >> THEN "nak"
    ELSE IF r_ = <<ACK>> THEN "ack"
    ELSE IF r_ = <<NAK>> THEN "nak"
    ELSE "ignore"

reply_kind_cancel_as_nak(r_) ==
    IF r_ = << >> THEN "nak"
    ELSE IF r_ = <<ACK>> THEN "ack"
    ELSE IF r_ \in {<<NAK>>, <<CAN>>} THEN "nak"
    ELSE "ignore"

reply_kind_nak_ignored(r_) ==
    IF r_ = << >> THEN "nak"
    ELSE IF r_ = <<ACK>> THEN "ack"
    ELSE IF r_ = <<CAN>> THEN "cancel"
    ELSE "ignore"

(* lines 111-119 with line 119 as "return False": any other byte is a NAK *)
reply_kind_noise_as_nak(r_) ==
    IF r_ = << >> THEN "nak"
    ELSE IF r_ = <<ACK>> THEN "ack"
    ELSE IF r_ = <<NAK>> THEN "nak"
    ELSE IF r_ = <<CAN>> THEN "cancel"
    ELSE "nak"

(* lines 111-119 with line 119 as "return True": any other byte is an ACK *)
reply_kind_noise_as_ack(r_) ==
    IF r_ = << >> THEN "nak"
    ELSE IF r_ = <<ACK>> THEN "ack"
    ELSE IF r_ = <<NAK>> THEN "nak"
    ELSE IF r_ = <<CAN>> THEN "cancel"
    ELSE "ack"

(* lines 111-119: what send_block makes of r (<< >> is None) *)
reply_kind(r_) ==
    IF r_ = << >> THEN "nak"
    ELSE IF r_ = <<ACK>> THEN "ack"
    ELSE IF r_ = <<NAK>> THEN "nak"
    ELSE IF r_ = <<CAN>> THEN "cancel"
    ELSE "ignore"

(* lines 163, 91-106: the packet is built and written; r is not yet assigned *)
SendBlock ==
    /\ pc = "send"
    /\ IF Len(chunk) > BLOCK_SIZE
       THEN /\ Return("raise", <<"ValueError">>)
            /\ UNCHANGED <<wire, left, txCount>>
       ELSE /\ wire' = Append(wire, build_pkt(block_no, chunk))
            /\ txCount' = txCount + 1
            /\ left' = per_try_timeout
            /\ pc' = "await"
            /\ UNCHANGED <<ret, err>>
    /\ r' = << >>
    /\ UNCHANGED <<b, r2, data, max_retries, sent, block_no, attempt,
                   hsElapsed, fails, failsBefore>>
    /\ UNCHANGED <<main_vars, flash_vars, replies_read>>

(* lines 167-168, 175-179, then 156 and 160: ACKed, on to the next chunk or to EOT *)
Accepted ==
    /\ sent' = next_sent(sent, end)
    /\ block_no' = next_block_no(block_no)
    /\ IF more_to_send(next_sent(sent, end), total)
       THEN pc' = "send" /\ attempt' = first_attempt(attempt)
       ELSE pc' = "eot" /\ attempt' = attempt
    /\ fails' = 0
    /\ txCount' = 0
    /\ failsBefore' = failsBefore + fails
    /\ UNCHANGED <<ret, err>>

(* lines 169-174: send_block returned False *)
BlockFailed ==
    /\ attempt' = attempt + 1
    /\ fails' = fails + 1
    /\ IF retries_exceeded(attempt + 1, max_retries)
       THEN Return("False", <<"RetriesExceeded", block_no>>)
       ELSE pc' = "send" /\ UNCHANGED <<ret, err>>
    /\ UNCHANGED <<sent, block_no, txCount, failsBefore>>

(* lines 109-119: one ser.read(1) of read_with_timeout and what send_block *)
(* and its caller do with the byte                                         *)
AwaitRead(o) ==
    /\ pc = "await"
    /\ left > 0
    /\ Read(o)
    /\ IF o[1] = << >>
       THEN /\ left' = left - 1
            /\ UNCHANGED <<pc, r, sent, block_no, attempt, ret, err,
                           fails, txCount, failsBefore>>
       ELSE /\ r' = o[1]
            /\ IF reply_kind(o[1]) = "ack" THEN Accepted /\ left' = 0
               ELSE IF reply_kind(o[1]) = "nak" THEN BlockFailed /\ left' = 0
               ELSE IF reply_kind(o[1]) = "cancel"
               THEN (* lines 118 and 164-166 *)
                    /\ Return("False", <<"Cancelled">>)
                    /\ left' = 0
                    /\ UNCHANGED <<sent, block_no, attempt, fails, txCount, failsBefore>>
               ELSE (* line 119: ignored, read_with_timeout is called afresh *)
                    /\ left' = per_try_timeout
                    /\ UNCHANGED <<pc, sent, block_no, attempt, ret, err,
                                   fails, txCount, failsBefore>>
    /\ UNCHANGED <<b, r2, data, max_retries, wire>>
    /\ UNCHANGED <<main_vars, flash_vars, replies_read>>

(* lines 111-112: read_with_timeout returned None *)
AwaitTimeout ==
    /\ pc = "await"
    /\ left = 0
    /\ r' = << >>
    /\ reply_kind(<< >>) = "nak"
    /\ BlockFailed
    /\ UNCHANGED <<left, b, r2, data, max_retries, wire, hsElapsed>>
    /\ UNCHANGED <<main_vars, flash_vars, replies_read>>

(***************************************************************************)
(* send_eot, xmodem_send.py:122-139, and lines 184-188                     *)
(***************************************************************************)
(* lines 128-139 with line 130 as "if r != ACK": EOT is sent again after     *)
(* anything but ACK and CAN                                                  *)
eot_reply_kind_resend(r_) ==
    IF r_ = <<ACK>> THEN "ack"
    ELSE IF r_ = <<CAN>> THEN "cancel"
    ELSE "nak"

(* lines 128-139: what send_eot makes of r (<< >> is None) *)
eot_reply_kind(r_) ==
    IF r_ = <<ACK>> THEN "ack"
    ELSE IF r_ = <<NAK>> THEN "nak"
    ELSE IF r_ = <<CAN>> THEN "cancel"
    ELSE "fail"

(* lines 125-126: the first EOT *)
SendEot ==
    /\ pc = "eot"
    /\ wire' = Append(wire, <<EOT>>)
    /\ left' = per_try_timeout
    /\ pc' = "eot1"
    /\ r' = << >>
    /\ UNCHANGED <<b, r2, data, max_retries, sent, block_no, attempt, ret, err,
                   hsElapsed, fails, txCount, failsBefore>>
    /\ UNCHANGED <<main_vars, flash_vars, replies_read>>

(* lines 127-139: the reply to the first EOT *)
Eot1Read(o) ==
    /\ pc = "eot1"
    /\ left > 0
    /\ Read(o)
    /\ IF o[1] = << >>
       THEN /\ left' = left - 1
            /\ UNCHANGED <<pc, r, ret, err, wire>>
       ELSE /\ r' = o[1]
            /\ IF eot_reply_kind(o[1]) = "ack"
               THEN Return("True", <<"none">>) /\ left' = 0 /\ UNCHANGED wire
               ELSE IF eot_reply_kind(o[1]) = "nak"
               THEN (* lines 132-134: EOT again *)
                    /\ wire' = Append(wire, <<EOT>>)
                    /\ left' = per_try_timeout
                    /\ pc' = "eot2"
                    /\ UNCHANGED <<ret, err>>
               ELSE IF eot_reply_kind(o[1]) = "cancel"
               THEN (* line 137: raised, and not caught by xmodem_crc_send *)
                    Return("raise", <<"Cancelled">>) /\ left' = 0 /\ UNCHANGED wire
               ELSE (* lines 139, 184-186 *)
                    Return("False", <<"EotNotAcked">>) /\ left' = 0 /\ UNCHANGED wire
    /\ UNCHANGED <<b, r2, data, max_retries, sent, block_no, attempt,
                   fails, txCount, failsBefore>>
    /\ UNCHANGED <<main_vars, flash_vars, replies_read>>

(* lines 127, 139, 184-186: r is None *)
Eot1Timeout ==
    /\ pc = "eot1"
    /\ left = 0
    /\ r' = << >>
    /\ eot_reply_kind(<< >>) = "fail"
    /\ Return("False", <<"EotNotAcked">>)
    /\ UNCHANGED <<left, b, r2, data, max_retries, sent, block_no, attempt, wire,
                   hsElapsed, fails, txCount, failsBefore>>
    /\ UNCHANGED <<main_vars, flash_vars, replies_read>>

eot2_ok_unless_nak(r2_) == r2_ # <<NAK>>

(* lines 134-135: return r2 == ACK *)
eot2_ok(r2_) == r2_ = <<ACK>>

Eot2Read(o) ==
    /\ pc = "eot2"
    /\ left > 0
    /\ Read(o)
    /\ IF o[1] = << >>
       THEN /\ left' = left - 1
            /\ UNCHANGED <<pc, r2, ret, err>>
       ELSE /\ r2' = o[1]
            /\ IF eot2_ok(o[1])
               THEN Return("True", <<"none">>)
               ELSE Return("False", <<"EotNotAcked">>)
            /\ left' = 0
    /\ UNCHANGED <<b, r, data, max_retries, sent, block_no, attempt, wire,
                   fails, txCount, failsBefore>>
    /\ UNCHANGED <<main_vars, flash_vars, replies_read>>

Eot2Timeout ==
    /\ pc = "eot2"
    /\ left = 0
    /\ r2' = << >>
    /\ IF eot2_ok(<< >>)
       THEN Return("True", <<"none">>)
       ELSE Return("False", <<"EotNotAcked">>)
    /\ UNCHANGED <<left, b, r, data, max_retries, sent, block_no, attempt, wire,
                   hsElapsed, fails, txCount, failsBefore>>
    /\ UNCHANGED <<main_vars, flash_vars, replies_read>>

(***************************************************************************)
(* The sender                                                              *)
(***************************************************************************)
Next ==
    \/ \E o \in ReadOutcomes : HsFirstRead(o)
    \/ HsFirstTimeout
    \/ HsAccept
    \/ HsDeadline
    \/ \E o \in ReadOutcomes : HsScanRead(o)
    \/ SendBlock
    \/ \E o \in ReadOutcomes : AwaitRead(o)
    \/ AwaitTimeout
    \/ SendEot
    \/ \E o \in ReadOutcomes : Eot1Read(o)
    \/ Eot1Timeout
    \/ \E o \in ReadOutcomes : Eot2Read(o)
    \/ Eot2Timeout

Spec == Init /\ [][Next]_vars

(* The scheduling the program has: the sender keeps running, and time passes *)
TimePasses ==
    \E o \in ReadOutcomes :
        /\ o[2] = 1
        /\ (HsFirstRead(o) \/ HsScanRead(o) \/ AwaitRead(o) \/ Eot1Read(o) \/ Eot2Read(o))

FairSpec == Spec /\ WF_vars(Next) /\ WF_vars(TimePasses)

(***************************************************************************)
(* A long file sent to a peer that answers at once: 'C' and ACK only, so   *)
(* that every block is written once and the block number wraps             *)
(***************************************************************************)
LongBlocks == 257

LongFile == [i \in 1..(BLOCK_SIZE * LongBlocks) |-> FileByte(i)]

PromptOutcomes == { <<<<CHAR_C>>, 0>>, <<<<ACK>>, 0>> }

InitLong ==
    /\ pc = "hs_first"
    /\ left = initial_timeout
    /\ b = << >>
    /\ r = << >>
    /\ r2 = << >>
    /\ data = LongFile
    /\ max_retries = 0
    /\ sent = 0
    /\ block_no = 1
    /\ attempt = 0
    /\ ret = "none"
    /\ err = <<"none">>
    /\ wire = << >>
    /\ hsElapsed = 0
    /\ fails = 0
    /\ txCount = 0
    /\ failsBefore = 0
    /\ ser = "open"
    /\ main_pc = "transfer"
    /\ exit_code = "none"
    /\ echoed = << >>
    /\ flash_data = << >>
    /\ results = << >>
    /\ section_i = 0
    /\ save_i = 0
    /\ saved_count = 0
    /\ written = << >>
    /\ printed = << >>
    /\ flash_sections = << >>
    /\ decodes = 0
    /\ replies_read = 0

(* block_no after j blocks were accepted: line 154, then line 179 j times, *)
(* the j times taken by halves                                             *)
RECURSIVE NumberedOn(_, _)
NumberedOn(n, j) ==
    IF j = 0 THEN n
    ELSE IF j = 1 THEN next_block_no(n)
    ELSE Bind(NumberedOn(n, j \div 2), LAMBDA m : NumberedOn(m, j - (j \div 2)))

BlockNoAfter(j) == NumberedOn(1, j)

(* What lines 156-179 have written once every block of LongFile was accepted *)
LongWire ==
    [i \in 1..LongBlocks |->
        build_pkt(BlockNoAfter(i - 1),
                  SubSeq(LongFile, BLOCK_SIZE * (i - 1) + 1, BLOCK_SIZE * i))]

(* The state of the run from InitLong at the top of the loop, three blocks     *)
(* before the last: a second starting point, so that the runs through the wrap *)
(* of the block number are short                                               *)
ResumeLong ==
    /\ pc = "send"
    /\ left = 0
    /\ b = <<CHAR_C>>
    /\ r = <<ACK>>
    /\ r2 = << >>
    /\ data = LongFile
    /\ max_retries = 0
    /\ sent = BLOCK_SIZE * (LongBlocks - 3)
    /\ block_no = BlockNoAfter(LongBlocks - 3)
    /\ attempt = 0
    /\ ret = "none"
    /\ err = <<"none">>
    /\ wire = SubSeq(LongWire, 1, LongBlocks - 3)
    /\ hsElapsed = 0
    /\ fails = 0
    /\ txCount = 0
    /\ failsBefore = 0
    /\ ser = "open"
    /\ main_pc = "transfer"
    /\ exit_code = "none"
    /\ echoed = << >>
    /\ flash_data = << >>
    /\ results = << >>
    /\ section_i = 0
    /\ save_i = 0
    /\ saved_count = 0
    /\ written = << >>
    /\ printed = << >>
    /\ flash_sections = << >>
    /\ decodes = 0
    /\ replies_read = 0

NextLong ==
    \/ \E o \in PromptOutcomes : HsFirstRead(o)
    \/ HsAccept
    \/ \E o \in PromptOutcomes : HsScanRead(o)
    \/ SendBlock
    \/ \E o \in PromptOutcomes : AwaitRead(o)
    \/ SendEot
    \/ \E o \in PromptOutcomes : Eot1Read(o)

LongSpec == (InitLong \/ ResumeLong) /\ [][NextLong]_vars

(***************************************************************************)
(* send_block called on its own, xmodem_send.py:86-106: the arguments are  *)
(* block_no and, as the chunk, data                                        *)
(***************************************************************************)
(* Chunk lengths tried with every block number, and block numbers tried with *)
(* every chunk length up to one more than send_block accepts                 *)
SweepLens == {0, TailLen, BLOCK_SIZE - 1, BLOCK_SIZE, BLOCK_SIZE + 1}
SweepBlockNos == {0, 1, 255}

CodecInputs ==
    ((0..255) \X SweepLens) \cup (SweepBlockNos \X (0..(BLOCK_SIZE + 1)))

ChunkOf(n, len) == [i \in 1..len |-> FileByte(i + n)]

InitCodec ==
    /\ pc = "call"
    /\ \E in \in CodecInputs :
          /\ block_no = in[1]
          /\ data = ChunkOf(in[1], in[2])
    /\ left = 0
    /\ b = << >>
    /\ r = << >>
    /\ r2 = << >>
    /\ max_retries = 0
    /\ sent = 0
    /\ attempt = 0
    /\ ret = "none"
    /\ err = <<"none">>
    /\ wire = << >>
    /\ hsElapsed = 0
    /\ fails = 0
    /\ txCount = 0
    /\ failsBefore = 0
    /\ ser = "open"
    /\ main_pc = "transfer"
    /\ exit_code = "none"
    /\ echoed = << >>
    /\ flash_data = << >>
    /\ results = << >>
    /\ section_i = 0
    /\ save_i = 0
    /\ saved_count = 0
    /\ written = << >>
    /\ printed = << >>
    /\ flash_sections = << >>
    /\ decodes = 0
    /\ replies_read = 0

(* line 93 with one byte more let through *)
chunk_too_large_lenient(chunk_) == Len(chunk_) > BLOCK_SIZE + 1

(* line 93: len(chunk) > BLOCK_SIZE *)
chunk_too_large(chunk_) == Len(chunk_) > BLOCK_SIZE

(* lines 91-106: pad or refuse the chunk, build the packet, write it *)
CallSendBlock ==
    /\ pc = "call"
    /\ IF chunk_too_large(data)
       THEN /\ Return("raise", <<"ValueError">>)
            /\ UNCHANGED <<wire, left, txCount>>
       ELSE /\ wire' = Append(wire, build_pkt(block_no, data))
            /\ txCount' = txCount + 1
            /\ left' = per_try_timeout
            /\ pc' = "written"
            /\ UNCHANGED <<ret, err>>
    /\ UNCHANGED <<b, r, r2, data, max_retries, sent, block_no, attempt,
                   hsElapsed, fails, failsBefore>>
    /\ UNCHANGED <<main_vars, flash_vars, replies_read>>

NextCodec == CallSendBlock

CodecSpec == InitCodec /\ [][NextCodec]_vars

(* Transfers and calls of send_block on its own, side by side *)
NextCallOrTransfer == Next \/ CallSendBlock

CallOrTransferSpec == (Init \/ InitCodec) /\ [][NextCallOrTransfer]_vars

(***************************************************************************)
(* crc16_ccitt called on its own, xmodem_send.py:40-53                     *)
(***************************************************************************)
CrcMaxLen == 3

(* The bytes of "123456789" *)
Check9 == <<49, 50, 51, 52, 53, 54, 55, 56, 57>>

CrcBytes == {0, 1, 128, 255}

RECURSIVE SeqsOfLen(_, _)
SeqsOfLen(S, n) ==
    IF n = 0 THEN { << >> }
    ELSE { Append(q, x) : q \in SeqsOfLen(S, n - 1), x \in S }

CrcInputs == {Check9} \cup UNION { SeqsOfLen(CrcBytes, n) : n \in 0..CrcMaxLen }

InitCrc ==
    /\ pc = "crc"
    /\ data \in CrcInputs
    /\ block_no = 1
    /\ left = 0
    /\ b = << >>
    /\ r = << >>
    /\ r2 = << >>
    /\ max_retries = 0
    /\ sent = 0
    /\ attempt = 0
    /\ ret = "none"
    /\ err = <<"none">>
    /\ wire = << >>
    /\ hsElapsed = 0
    /\ fails = 0
    /\ txCount = 0
    /\ failsBefore = 0
    /\ ser = "open"
    /\ main_pc = "transfer"
    /\ exit_code = "none"
    /\ echoed = << >>
    /\ flash_data = << >>
    /\ results = << >>
    /\ section_i = 0
    /\ save_i = 0
    /\ saved_count = 0
    /\ written = << >>
    /\ printed = << >>
    /\ flash_sections = << >>
    /\ decodes = 0
    /\ replies_read = 0

(* lines 45-53: ret is the value crc16_ccitt(data) returns *)
CallCrc ==
    /\ pc = "crc"
    /\ ret' = crc16_ccitt(data)
    /\ pc' = "crc_done"
    /\ UNCHANGED <<left, b, r, r2, data, max_retries, sent, block_no, attempt, err,
                   wire, hsElapsed, fails, txCount, failsBefore>>
    /\ UNCHANGED <<main_vars, flash_vars, replies_read>>

NextCrc == CallCrc

CrcSpec == InitCrc /\ [][NextCrc]_vars

(***************************************************************************)
(* main, xmodem_send.py:191-256: the file is read, the port opened, the    *)
(* transfer run inside try/finally, and the port closed                    *)
(***************************************************************************)
(* How lines 205-231 can go *)
StartOutcomes == {"no_file", "read_error", "no_port", "ok"}

(* What can be raised inside the try block of lines 235-249 besides what   *)
(* xmodem_crc_send raises itself                                           *)
Faults == {"KeyboardInterrupt", "SerialException"}

InitMain ==
    /\ main_pc = "start"
    /\ ser = "unopened"
    /\ exit_code = "none"
    /\ echoed = << >>
    /\ pc = "idle"
    /\ left = 0
    /\ b = << >>
    /\ r = << >>
    /\ r2 = << >>
    /\ data \in Files
    /\ max_retries \in 0..MaxRetries
    /\ sent = 0
    /\ block_no = 1
    /\ attempt = 0
    /\ ret = "none"
    /\ err = <<"none">>
    /\ wire = << >>
    /\ hsElapsed = 0
    /\ fails = 0
    /\ txCount = 0
    /\ failsBefore = 0
    /\ flash_data = << >>
    /\ results = << >>
    /\ section_i = 0
    /\ save_i = 0
    /\ saved_count = 0
    /\ written = << >>
    /\ printed = << >>
    /\ flash_sections = << >>
    /\ decodes = 0
    /\ replies_read = 0

(* line 251 without the close *)
finally_leave(ser_) == ser_

(* lines 250-251: finally: ser.close() *)
finally_close(ser_) == "closed"

(* lines 205-237: return 1 when the file is missing or unreadable, return 2  *)
(* when the port cannot be opened, else xmodem_crc_send is entered           *)
MainStart(outcome) ==
    /\ main_pc = "start"
    /\ IF outcome = "ok"
       THEN /\ ser' = "open"
            /\ main_pc' = "transfer"
            /\ pc' = "hs_first"
            /\ left' = initial_timeout
            /\ UNCHANGED exit_code
       ELSE /\ exit_code' = IF outcome = "no_port" THEN "2" ELSE "1"
            /\ main_pc' = "exited"
            /\ UNCHANGED <<ser, pc, left>>
    /\ UNCHANGED <<b, r, r2, data, max_retries, sent, block_no, attempt, ret, err,
                   wire, hsElapsed, fails, txCount, failsBefore, echoed, flash_vars,
                   replies_read>>

(* lines 237-256: xmodem_crc_send is over; True goes on to the loop of lines *)
(* 248-249, False leaves through finally to return 3, an exception leaves    *)
(* through finally and goes on up                                            *)
MainTransferEnded ==
    /\ main_pc = "transfer"
    /\ pc = "done"
    /\ IF ret = "True"
       THEN /\ main_pc' = "tail"
            /\ UNCHANGED <<ser, exit_code>>
       ELSE /\ ser' = finally_close(ser)
            /\ exit_code' = IF ret = "False" THEN "3" ELSE err[1]
            /\ main_pc' = "exited"
    /\ UNCHANGED <<pc, left, b, r, r2, data, max_retries, sent, block_no, attempt,
                   ret, err, wire, hsElapsed, fails, txCount, failsBefore, echoed,
                   flash_vars, replies_read>>

(* lines 248-249: print(ser.read(1)...), for ever *)
MainTailRead(o) ==
    /\ main_pc = "tail"
    /\ echoed' = o[1]
    /\ UNCHANGED <<pc, left, b, r, r2, data, max_retries, sent, block_no, attempt,
                   ret, err, wire, hsElapsed, fails, txCount, failsBefore,
                   ser, main_pc, exit_code, flash_vars, replies_read>>

(* Ctrl+C, or the port failing, anywhere in lines 236-249: out through       *)
(* finally, lines 250-251                                                    *)
MainFault(kind) ==
    /\ main_pc \in {"transfer", "tail"}
    /\ ser' = finally_close(ser)
    /\ exit_code' = kind
    /\ main_pc' = "exited"
    /\ pc' = IF pc = "done" THEN pc ELSE "aborted"
    /\ left' = 0
    /\ UNCHANGED <<b, r, r2, data, max_retries, sent, block_no, attempt,
                   ret, err, wire, hsElapsed, fails, txCount, failsBefore, echoed,
                   flash_vars, replies_read>>

NextMain ==
    \/ \E outcome \in StartOutcomes : MainStart(outcome)
    \/ Next
    \/ MainTransferEnded
    \/ \E o \in ReadOutcomes : MainTailRead(o)
    \/ \E kind \in Faults : MainFault(kind)

MainSpec == InitMain /\ [][NextMain]_vars

(* main keeps running: a step that can be taken is taken, and a read that can *)
(* time out does                                                              *)
FairMainSpec == MainSpec /\ WF_vars(NextMain) /\ WF_vars(TimePasses)

(***************************************************************************)
(* flash-split.py: the partition table, the descriptor parser and          *)
(* parse_flash.  An optional number is << >> for None and <<n>> for n; a   *)
(* text is the tuple of its characters                                     *)
(***************************************************************************)
(* lines 27-44, addresses and sizes in decimal *)
FLASH_SECTIONS == <<
    [name |-> "ota_jump_code", addr |-> 0, size |-> <<3088>>, ram_addr |-> <<32768>>,
     desc |-> "Loaded by ROM bootloader"],
    [name |-> "ota_boot_32k", addr |-> 32768, size |-> <<8120>>, ram_addr |-> <<536903680>>,
     desc |-> "Loaded by jump_code, check Boot Area, load AppX/Factory, update AppX"],
    [name |-> "Boot Area", addr |-> 65536, size |-> <<8>>, ram_addr |-> << >>,
     desc |-> "Boot configuration"],
    [name |-> "Radar Config", addr |-> 81920, size |-> <<264>>, ram_addr |-> << >>,
     desc |-> "There are settings like: mounting type, interference and detections areas, etc"],
    [name |-> "App1", addr |-> 98288, size |-> << >>, ram_addr |-> <<32768>>,
     desc |-> "Radar App1"],
    [name |-> "App2", addr |-> 163824, size |-> << >>, ram_addr |-> <<32768>>,
     desc |-> "Radar App2"],
    [name |-> "Factory Default", addr |-> 229376, size |-> << >>, ram_addr |-> <<32768>>,
     desc |-> "Factory Default"],
    [name |-> "Unknown", addr |-> 294912, size |-> <<60>>, ram_addr |-> << >>,
     desc |-> "Unknown section"] >>

Max(a, c) == IF a > c THEN a ELSE c

(* An image is its length and the sixteen bytes at each table address; every *)
(* other byte of it is 0xFF.  flash_data[i], i counted from 0:               *)
FlashByte(image, i) ==
    IF \E k \in DOMAIN FLASH_SECTIONS :
           FLASH_SECTIONS[k].addr <= i /\ i < FLASH_SECTIONS[k].addr + 16
    THEN LET k == CHOOSE k \in DOMAIN FLASH_SECTIONS :
                      FLASH_SECTIONS[k].addr <= i /\ i < FLASH_SECTIONS[k].addr + 16
         IN  image.head[k][i - FLASH_SECTIONS[k].addr + 1]
    ELSE 255

(* flash_data[lo:hi] as the bounds of the bytes it holds: Python clamps both *)
(* ends to the length                                                        *)
Slice(image, lo, hi) ==
    [from |-> Min(lo, image.len),
     to   |-> Max(Min(lo, image.len), Min(hi, image.len))]

SliceLen(view) == view.to - view.from

(* The first bytes of a slice, sixteen at most: all parse_app_descriptor reads *)
Leading(image, view) ==
    [k \in 1..Min(16, SliceLen(view)) |-> FlashByte(image, view.from + k - 1)]

HexChars == <<"0", "1", "2", "3", "4", "5", "6", "7", "8", "9", "A", "B", "C", "D", "E", "F">>

(* The digits bytes.hex() writes *)
LowerHexChars == <<"0", "1", "2", "3", "4", "5", "6", "7", "8", "9", "a", "b", "c", "d", "e", "f">>

(* format(n, "X"): the hexadecimal digits of n, most significant first *)
RECURSIVE HexDigits(_)
HexDigits(n) ==
    IF n < 16 THEN <<HexChars[n + 1]>>
    ELSE HexDigits(n \div 16) \o <<HexChars[(n % 16) + 1]>>

(* format(n, "08X") *)
Hex8(n) ==
    LET d == HexDigits(n)
    IN  [k \in 1..Max(0, 8 - Len(d)) |-> "0"] \o d

(* struct.unpack(">H", ...): the first byte the most significant *)
UnpackBE(bytes) ==
    LET RECURSIVE be(_)
        be(k) == IF k < 1 THEN 0 ELSE bytes[k] + 256 * be(k - 1)
    IN  be(Len(bytes))

(* struct.unpack("<H", ...) and struct.unpack("<I", ...) *)
UnpackLE(bytes) ==
    LET RECURSIVE le(_)
        le(k) == IF k > Len(bytes) THEN 0 ELSE bytes[k] + 256 * le(k + 1)
    IN  le(1)

(* lines 61-80 with line 61 as len(data) <= 16 *)
parse_app_descriptor_over_16(data_) ==
    IF Len(data_) <= 16
    THEN [error |-> <<"Insufficient data for header", Len(data_)>>]
    ELSE LET size1 == UnpackLE(SubSeq(data_, 1, 2))
             size2 == UnpackLE(SubSeq(data_, 3, 4))
             signature == data_[5]
             address == <<UnpackLE(SubSeq(data_, 8, 9)), UnpackLE(SubSeq(data_, 6, 7))>>
         IN  [size1 |-> size1,
              size2 |-> size2,
              signature |-> signature,
              address |-> address,
              raw_header |-> [k \in 1..16 |->
                                 <<LowerHexChars[(data_[k] \div 16) + 1],
                                   LowerHexChars[(data_[k] % 16) + 1]>>],
              valid |-> (size1 = size2 /\ signature = 90)]

(* lines 61-80 *)
parse_app_descriptor(data_) ==
    IF Len(data_) < 16
    THEN [error |-> <<"Insufficient data for header", Len(data_)>>]
    ELSE LET size1 == UnpackLE(SubSeq(data_, 1, 2))
             size2 == UnpackLE(SubSeq(data_, 3, 4))
             signature == data_[5]
             \* a 32-bit unsigned value, kept as its high and low 16-bit halves
             address == <<UnpackLE(SubSeq(data_, 8, 9)), UnpackLE(SubSeq(data_, 6, 7))>>
         IN  [size1 |-> size1,
              size2 |-> size2,
              signature |-> signature,
              address |-> address,
              \* bytes.hex(' '): two lower-case digits a byte, the groups apart
              raw_header |-> [k \in 1..16 |->
                                 <<LowerHexChars[(data_[k] \div 16) + 1],
                                   LowerHexChars[(data_[k] % 16) + 1]>>],
              valid |-> (size1 = size2 /\ signature = 90)]

(* line 105 with > for >= *)
beyond_strictly(addr, flash_len) == addr > flash_len

(* line 105: if addr >= len(flash_data) *)
beyond(addr, flash_len) == addr >= flash_len

(* lines 106-110: the report of an entry whose address is beyond the image *)
beyond_report(section) ==
    [name |-> section.name,
     addr |-> <<"0", "x">> \o Hex8(section.addr),
     error |-> "Address beyond flash data size"]

(* line 121 with 8 for 16 *)
large_enough_8(n) == n >= 8

(* line 121: if len(section_data) >= 16 *)
large_enough(n) == n >= 16

(* line 125 without "size is None" *)
use_descriptor_size_always(size, descriptor) == descriptor.valid

(* line 125 with a valid descriptor's smaller size taken over a size of the  *)
(* table as well                                                            *)
use_descriptor_size_if_smaller(size, descriptor) ==
    descriptor.valid /\ (size = << >> \/ descriptor.size1 < size[1])

(* line 125: if size is None and descriptor["valid"] *)
use_descriptor_size(size, descriptor) == size = << >> /\ descriptor.valid

(* lines 113-141: the report of an entry whose address is inside the image *)
section_report(image, section) ==
    LET first == IF section.size # << >>
                 THEN Slice(image, section.addr, section.addr + section.size[1])
                 ELSE Slice(image, section.addr, section.addr + 16)
        descriptor == IF large_enough(SliceLen(first))
                      THEN parse_app_descriptor(Leading(image, first))
                      ELSE [error |-> <<"Section too small", SliceLen(first)>>]
        resized == /\ large_enough(SliceLen(first))
                   /\ use_descriptor_size(section.size, descriptor)
        size == IF resized THEN <<descriptor.size1>> ELSE section.size
        section_data == IF resized
                        THEN Slice(image, section.addr, section.addr + descriptor.size1)
                        ELSE first
    IN  [name |-> section.name,
         addr |-> <<"0", "x">> \o Hex8(section.addr),
         size |-> IF size # << >> THEN <<"0", "x">> \o HexDigits(size[1]) ELSE <<"Unknown">>,
         ram_addr |-> IF section.ram_addr # << >>
                      THEN <<"0", "x">> \o Hex8(section.ram_addr[1])
                      ELSE <<"N/A">>,
         desc |-> section.desc,
         descriptor |-> descriptor,
         data_len |-> SliceLen(section_data),
         data |-> section_data]

(* line 111 as a return: the scan ends at the first entry beyond the image *)
continue_as_return(i) == Len(FLASH_SECTIONS)

(* line 111: continue, on to the next entry *)
continue(i) == i + 1

(* The headers an image may carry at a table address *)
Header(size1, size2, signature) ==
    <<size1 % 256, size1 \div 256, size2 % 256, size2 \div 256, signature,
      0, 128, 0, 0, 1, 2, 3, 4, 5, 6, 7>>

Headers == { Header(8, 8, 90),          \* valid, smaller than the header itself
             Header(4660, 4660, 90),    \* valid
             Header(32, 33, 90),        \* the two sizes differ
             Header(32, 32, 65),        \* signature 'A'
             Header(0, 0, 90),          \* valid, of size nothing
             Header(65535, 65535, 90),  \* valid, the largest size
             [k \in 1..16 |-> 255] }    \* erased flash

(* Image lengths around the table's addresses *)
FlashLens == {0, 10, 3088, 32768 + 8120, 65536, 65536 + 8, 81920 + 264, 98288 + 8,
              98288 + 16, 98288 + 4660 + 16, 163824 + 100, 229376 + 16, 294912,
              294912 + 60, 524288}

(* One header for the entries that have a size, one for App1, one for App2 *)
(* and Factory Default                                                     *)
FlashImages ==
    { [len |-> n,
       head |-> [k \in DOMAIN FLASH_SECTIONS |->
                    IF FLASH_SECTIONS[k].size # << >> THEN h1
                    ELSE IF k = 5 THEN h2 ELSE h3]] :
      n \in FlashLens, h1 \in Headers, h2 \in Headers, h3 \in Headers }

InitFlash ==
    /\ pc = "parse"
    /\ flash_data \in FlashImages
    /\ results = << >>
    /\ section_i = 0
    /\ save_i = 0
    /\ saved_count = 0
    /\ written = << >>
    /\ printed = << >>
    /\ flash_sections = FLASH_SECTIONS
    /\ decodes = 0
    /\ replies_read = 0
    /\ left = 0
    /\ b = << >>
    /\ r = << >>
    /\ r2 = << >>
    /\ data = << >>
    /\ max_retries = 0
    /\ sent = 0
    /\ block_no = 1
    /\ attempt = 0
    /\ ret = "none"
    /\ err = <<"none">>
    /\ wire = << >>
    /\ hsElapsed = 0
    /\ fails = 0
    /\ txCount = 0
    /\ failsBefore = 0
    /\ ser = "unopened"
    /\ main_pc = "start"
    /\ exit_code = "none"
    /\ echoed = << >>

xmodem_vars == <<left, b, r, r2, data, max_retries, sent, block_no, attempt, ret, err,
                 wire, hsElapsed, fails, txCount, failsBefore, replies_read>>

(* line 126 as section["size"] = descriptor["size1"]: the derived size is     *)
(* stored in the table's entry                                               *)
sections_after_size_stored(sections, k, report) ==
    IF sections[k].size = << >> /\ "valid" \in DOMAIN report.descriptor
                                /\ report.descriptor.valid
    THEN [sections EXCEPT ![k].size = <<report.descriptor.size1>>]
    ELSE sections

(* lines 100-101, 126: size is a local name; giving it the descriptor's size  *)
(* leaves the entry of the table as it was                                   *)
sections_after(sections, k, report) == sections

(* lines 99-141: one turn of "for section in FLASH_SECTIONS" *)
ParseSection ==
    /\ pc = "parse"
    /\ section_i < Len(flash_sections)
    /\ LET section == flash_sections[section_i + 1]
       IN  IF beyond(section.addr, flash_data.len)
           THEN /\ results' = Append(results, beyond_report(section))
                /\ section_i' = continue(section_i)
                /\ UNCHANGED flash_sections
           ELSE /\ results' = Append(results, section_report(flash_data, section))
                /\ section_i' = section_i + 1
                /\ flash_sections' = sections_after(flash_sections, section_i + 1,
                                                    section_report(flash_data, section))
    /\ UNCHANGED <<pc, flash_data, decodes, save_vars, xmodem_vars, main_vars>>

(* line 143: return results *)
ParseReturn ==
    /\ pc = "parse"
    /\ section_i >= Len(flash_sections)
    /\ pc' = "parsed"
    /\ decodes' = decodes + 1
    /\ UNCHANGED <<flash_data, results, section_i, flash_sections, save_vars, xmodem_vars,
                   main_vars>>

NextFlash == ParseSection \/ ParseReturn

FlashSpec == InitFlash /\ [][NextFlash]_vars

(***************************************************************************)
(* save_sections_to_files, flash-split.py:175-203, called on what          *)
(* parse_flash returned                                                    *)
(***************************************************************************)
(* The names of lines 28-42, character by character *)
NameText ==
    [n \in { FLASH_SECTIONS[k].name : k \in DOMAIN FLASH_SECTIONS } |->
        CASE n = "ota_jump_code" -> <<"o", "t", "a", "_", "j", "u", "m", "p", "_", "c", "o", "d", "e">>
          [] n = "ota_boot_32k" -> <<"o", "t", "a", "_", "b", "o", "o", "t", "_", "3", "2", "k">>
          [] n = "Boot Area" -> <<"B", "o", "o", "t", " ", "A", "r", "e", "a">>
          [] n = "Radar Config" -> <<"R", "a", "d", "a", "r", " ", "C", "o", "n", "f", "i", "g">>
          [] n = "App1" -> <<"A", "p", "p", "1">>
          [] n = "App2" -> <<"A", "p", "p", "2">>
          [] n = "Factory Default" ->
                <<"F", "a", "c", "t", "o", "r", "y", " ", "D", "e", "f", "a", "u", "l", "t">>
          [] n = "Unknown" -> <<"U", "n", "k", "n", "o", "w", "n">>]

UpperLetters == <<"A", "B", "C", "D", "E", "F", "G", "H", "I", "J", "K", "L", "M",
                  "N", "O", "P", "Q", "R", "S", "T", "U", "V", "W", "X", "Y", "Z">>
LowerLetters == <<"a", "b", "c", "d", "e", "f", "g", "h", "i", "j", "k", "l", "m",
                  "n", "o", "p", "q", "r", "s", "t", "u", "v", "w", "x", "y", "z">>

(* line 189: .replace(" ", "_") *)
replace_space(text) == [k \in DOMAIN text |-> IF text[k] = " " THEN "_" ELSE text[k]]

(* line 189: .lower() *)
lower(text) ==
    [k \in DOMAIN text |->
        IF \E n \in DOMAIN UpperLetters : UpperLetters[n] = text[k]
        THEN LowerLetters[CHOOSE n \in DOMAIN UpperLetters : UpperLetters[n] = text[k]]
        ELSE text[k]]

(* The prefix main hands over, line 235 *)
prefix == <<"d", "u", "m", "p">>

(* lines 189-190 *)
filename_of(name) ==
    prefix \o <<"_">> \o lower(replace_space(NameText[name])) \o <<".", "b", "i", "n">>

(* line 187 without the test of the flag: any parsed descriptor is saved *)
should_save_any_descriptor(section) ==
    /\ "descriptor" \in DOMAIN section
    /\ "valid" \in DOMAIN section.descriptor

(* line 187 *)
should_save(section) ==
    /\ "descriptor" \in DOMAIN section
    /\ "valid" \in DOMAIN section.descriptor
    /\ section.descriptor.valid

(* lines 197-198 as a way out of the loop: the first failure ends the saving *)
except_abort(i) == Len(results)

(* lines 197-198: the exception is caught inside the loop, which goes on *)
except_continue(i) == i + 1

(* How open() and write() of lines 193-194 can go *)
WriteOutcomes == {"ok", "error"}

(* The images saved from: every header, at lengths that leave no, some and    *)
(* all entries inside                                                      *)
SaveLens == {0, 65536 + 8, 98288 + 16, 98288 + 4660 + 16, 524288}

SaveImages == { image \in FlashImages : image.len \in SaveLens }

InitSave ==
    /\ pc = "parse"
    /\ flash_data \in SaveImages
    /\ results = << >>
    /\ section_i = 0
    /\ save_i = 0
    /\ saved_count = 0
    /\ written = << >>
    /\ printed = << >>
    /\ flash_sections = FLASH_SECTIONS
    /\ decodes = 0
    /\ replies_read = 0
    /\ left = 0
    /\ b = << >>
    /\ r = << >>
    /\ r2 = << >>
    /\ data = << >>
    /\ max_retries = 0
    /\ sent = 0
    /\ block_no = 1
    /\ attempt = 0
    /\ ret = "none"
    /\ err = <<"none">>
    /\ wire = << >>
    /\ hsElapsed = 0
    /\ fails = 0
    /\ txCount = 0
    /\ failsBefore = 0
    /\ ser = "unopened"
    /\ main_pc = "start"
    /\ exit_code = "none"
    /\ echoed = << >>

(* line 183: saved_count = 0, on entry *)
SaveCall ==
    /\ pc = "parsed"
    /\ pc' = "save"
    /\ save_i' = 0
    /\ saved_count' = 0
    /\ UNCHANGED <<written, printed, flash_data, results, section_i, table_vars,
                   xmodem_vars, main_vars>>

(* lines 185-198: one turn of "for section in results" *)
SaveSection(outcome) ==
    /\ pc = "save"
    /\ save_i < Len(results)
    /\ LET section == results[save_i + 1]
           filename == filename_of(section.name)
       IN  IF should_save(section)
           THEN IF outcome = "ok"
                THEN /\ written' = Append(written, [filename |-> filename,
                                                     data |-> section.data])
                     /\ printed' = Append(printed, <<"Saved section", section.name,
                                                      filename, section.data_len>>)
                     /\ saved_count' = saved_count + 1
                     /\ save_i' = save_i + 1
                ELSE /\ printed' = Append(printed, <<"Error saving section",
                                                      section.name, filename>>)
                     /\ save_i' = except_continue(save_i)
                     /\ UNCHANGED <<written, saved_count>>
           ELSE /\ save_i' = save_i + 1
                /\ UNCHANGED <<written, printed, saved_count>>
    /\ UNCHANGED <<pc, flash_data, results, section_i, table_vars, xmodem_vars, main_vars>>

(* lines 200-203: the closing line, and the return *)
SaveReturn ==
    /\ pc = "save"
    /\ save_i >= Len(results)
    /\ printed' = Append(printed,
                         IF saved_count = 0
                         THEN <<"No sections with valid signatures found to save.">>
                         ELSE <<"Saved sections", saved_count, prefix>>)
    /\ pc' = "saved"
    /\ UNCHANGED <<save_i, saved_count, written, flash_data, results, section_i,
                   table_vars, xmodem_vars, main_vars>>

NextSave ==
    \/ NextFlash
    \/ SaveCall
    \/ \E outcome \in WriteOutcomes : SaveSection(outcome)
    \/ SaveReturn

SaveSpec == InitSave /\ [][NextSave]_vars

(***************************************************************************)
(* parse_app_descriptor called on its own, flash-split.py:46-80            *)
(***************************************************************************)
(* What it is called with: the headers, cut short at every length and run on *)
(* past sixteen bytes                                                      *)
DescriptorMaxLen == 18

DescriptorInputs ==
    { SubSeq(h \o h, 1, n) : h \in Headers, n \in 0..DescriptorMaxLen }

InitDescriptor ==
    /\ pc = "descriptor"
    /\ data \in DescriptorInputs
    /\ flash_data = << >>
    /\ results = << >>
    /\ section_i = 0
    /\ save_i = 0
    /\ saved_count = 0
    /\ written = << >>
    /\ printed = << >>
    /\ flash_sections = FLASH_SECTIONS
    /\ decodes = 0
    /\ replies_read = 0
    /\ left = 0
    /\ b = << >>
    /\ r = << >>
    /\ r2 = << >>
    /\ max_retries = 0
    /\ sent = 0
    /\ block_no = 1
    /\ attempt = 0
    /\ ret = "none"
    /\ err = <<"none">>
    /\ wire = << >>
    /\ hsElapsed = 0
    /\ fails = 0
    /\ txCount = 0
    /\ failsBefore = 0
    /\ ser = "unopened"
    /\ main_pc = "start"
    /\ exit_code = "none"
    /\ echoed = << >>

(* lines 61-80: ret is what parse_app_descriptor(data) returns *)
CallDescriptor ==
    /\ pc = "descriptor"
    /\ ret' = parse_app_descriptor(data)
    /\ pc' = "descriptor_done"
    /\ UNCHANGED <<left, b, r, r2, data, max_retries, sent, block_no, attempt, err,
                   wire, hsElapsed, fails, txCount, failsBefore>>
    /\ UNCHANGED <<main_vars, flash_vars, replies_read>>

NextDescriptor == CallDescriptor

DescriptorSpec == InitDescriptor /\ [][NextDescriptor]_vars

(***************************************************************************)
(* parse_flash called again and again in one process, on one image after   *)
(* another                                                                 *)
(***************************************************************************)
MaxDecodes == 2

(* Images that leave none, some and all of the entries inside, the entries   *)
(* with a size carrying a valid header                                     *)
RepeatImages ==
    { image \in FlashImages : /\ image.len \in {0, 98288 + 16, 524288}
                              /\ image.head[1] = Header(4660, 4660, 90) }

InitRepeat == InitFlash /\ flash_data \in RepeatImages

(* line 97, on entry to the next call: results = [] *)
ParseAgain(image) ==
    /\ pc = "parsed"
    /\ decodes < MaxDecodes
    /\ pc' = "parse"
    /\ flash_data' = image
    /\ results' = << >>
    /\ section_i' = 0
    /\ UNCHANGED <<table_vars, save_vars, xmodem_vars, main_vars>>

NextRepeat ==
    \/ NextFlash
    \/ \E image \in RepeatImages : ParseAgain(image)

RepeatSpec == InitRepeat /\ [][NextRepeat]_vars

(***************************************************************************)
(* The sender facing a receiver that answers every packet it gets, a       *)
(* repeated one too, with ACK.  An answer may take longer than             *)
(* per_try_timeout to arrive; answers arrive in the order they were given, *)
(* and the port keeps what has arrived until it is read: nothing in        *)
(* send_block or xmodem_crc_send empties the input before a write.         *)
(* The answer to wire[n] is the n-th byte the sender reads after the       *)
(* handshake.                                                              *)
(***************************************************************************)
(* The receiver asks for CRC mode at once *)
PeerPrompt == <<<<CHAR_C>>, 0>>

(* ser.read(1) returns nothing: the next answer has not arrived *)
PeerSilence == <<<< >>, 1>>

(* lines 109-114: ser.read(1) returns the next answer, an ACK *)
PeerAwaitRead(dt) ==
    /\ pc = "await"
    /\ left > 0
    /\ replies_read < Len(wire)
    /\ Read(<<<<ACK>>, dt>>)
    /\ r' = <<ACK>>
    /\ reply_kind(<<ACK>>) = "ack"
    /\ Accepted
    /\ left' = 0
    /\ replies_read' = replies_read + 1
    /\ UNCHANGED <<b, r2, data, max_retries, wire>>
    /\ UNCHANGED <<main_vars, flash_vars>>

NextPeer ==
    \/ HsFirstRead(PeerPrompt)
    \/ HsAccept
    \/ SendBlock
    \/ AwaitRead(PeerSilence)
    \/ AwaitTimeout
    \/ \E dt \in {0, 1} : PeerAwaitRead(dt)

PeerSpec == Init /\ [][NextPeer]_vars

(***************************************************************************)
(* Claims                                                                  *)
(***************************************************************************)
Terminal == pc = "done"
InHandshake == pc \in HsPcs
Last(seq) == seq[Len(seq)]

(* The handshake is over and no 'C' was read within initial_timeout of its start *)
NoCInTime == ~InHandshake /\ (b # <<CHAR_C>> \/ hsElapsed > initial_timeout)

(* C1: if no 'C' arrives within initial_timeout of the start of the handshake, *)
(* xmodem_crc_send returns False for NoHandshake and nothing has been written  *)
(* to the transport.                                                           *)
C1_NoHandshakeNoWrites ==
    NoCInTime => /\ wire = << >>
                 /\ Terminal => (ret = "False" /\ err = <<"NoHandshake">>)

(* C2: the handshake has one deadline, initial_timeout after its start: it is  *)
(* never still in progress past that deadline, and a 'C' is accepted only if   *)
(* it was read by then.                                                        *)
C2_OneOverallDeadline ==
    /\ InHandshake => hsElapsed <= initial_timeout
    /\ (~InHandshake /\ b = <<CHAR_C>>) => hsElapsed <= initial_timeout

(* Steps of the wait for a block's reply: send_block reads byte x; the wait times out *)
ReadsReply(x) == pc = "await" /\ r' = <<x>>
ReplyTimesOut == pc = "await" /\ left = 0 /\ pc' # "await"

(* C3: a block answered by NAK or timeout at most max_retries times and then  *)
(* by ACK is accepted and the transfer goes on; the NAK or timeout that is    *)
(* number max_retries + 1 for a block ends the transfer with                  *)
(* RetriesExceeded for that block number, and no earlier one does.            *)
C3_RetryThreshold ==
    /\ [](pc = "await" => (fails <= max_retries /\ r \notin {<<ACK>>, <<NAK>>, <<CAN>>}))
    /\ [][ /\ ReadsReply(ACK) =>
                /\ sent' = end
                /\ pc' \in {"send", "eot"}
                /\ ret' = "none"
           /\ (ReadsReply(NAK) \/ ReplyTimesOut) =>
                IF fails = max_retries
                THEN pc' = "done" /\ ret' = "False"
                     /\ err' = <<"RetriesExceeded", block_no>>
                ELSE pc' = "send" /\ ret' = "none" /\ fails' = fails + 1
         ]_vars

(* Block 1 was accepted after exactly max_retries failures, block 2 then failed *)
C3_Witness ==
    /\ Terminal
    /\ max_retries > 0
    /\ failsBefore = max_retries
    /\ err = <<"RetriesExceeded", 2>>
    /\ fails = max_retries + 1

(* The number of writes in wire equal to p *)
WritesOf(p) == Cardinality({ i \in DOMAIN wire : wire[i] = p })

(* C4: the attempt counter of the current block is at most max_retries + 1 in *)
(* every reachable state, and no block is written to the transport more than  *)
(* max_retries + 1 times.                                                     *)
C4_AttemptBound ==
    /\ attempt <= max_retries + 1
    /\ txCount <= max_retries + 1
    /\ \A i \in DOMAIN wire : wire[i] # <<EOT>> => WritesOf(wire[i]) <= max_retries + 1

(* The bound is met: the last block of a two-block file was written max_retries + 1 times *)
C4_Witness ==
    /\ max_retries = MaxRetries
    /\ attempt = max_retries + 1
    /\ block_no = 2
    /\ WritesOf(Last(wire)) = max_retries + 1

C6_CancelStopsWrites ==
    /\ [](pc = "await" => r # <<CAN>>)
    /\ [][ /\ ReadsReply(CAN) => (pc' = "done" /\ wire' = wire)
           /\ (r = <<CAN>> \/ Terminal) => wire' = wire
         ]_vars

(* CAN answered the second block *)
C6_Witness ==
    /\ Terminal
    /\ r = <<CAN>>
    /\ block_no = 2
    /\ Last(wire)[1] = SOH

(* A byte other than ACK, NAK and CAN has been discarded in the wait for a block's reply *)
NoiseDiscarded == pc = "await" /\ r \notin {<< >>, <<ACK>>, <<NAK>>, <<CAN>>}

(* C7 as claimed: every run, whatever the peer does, eventually reaches a     *)
(* terminal outcome and stays there.                                          *)
C7_AlwaysTerminates == <>[]Terminal

(* C7 as amended: every run eventually reaches exactly one terminal outcome   *)
(* and stays there, unless the peer goes on for ever sending bytes other than *)
(* ACK, NAK and CAN while the reply to a data block is awaited.               *)
C7_TerminatesUnlessNoise ==
    /\ (<>[]Terminal) \/ ([]<>NoiseDiscarded)
    /\ [](Terminal <=> ret \in {"True", "False", "raise"})
    /\ [][Terminal => (pc' = pc /\ ret' = ret /\ err' = err)]_vars

(* A two-block transfer ended well although an earlier block had to be resent *)
C7_Witness ==
    /\ Terminal
    /\ ret = "True"
    /\ total > BLOCK_SIZE
    /\ failsBefore > 0

(* C8: when a data block is answered by NAK or timeout and retries remain,    *)
(* block number and file offset stay as they are, and the next packet written *)
(* equals the previous one byte for byte.                                     *)
C8_RetransmitIdentical ==
    [][ /\ ((ReadsReply(NAK) \/ ReplyTimesOut) /\ pc' = "send") =>
              (block_no' = block_no /\ sent' = sent /\ wire' = wire)
        /\ (pc = "send" /\ txCount > 0 /\ pc' = "await") =>
              (Len(wire') = Len(wire) + 1 /\ Last(wire') = Last(wire))
      ]_vars

(* A short, padded chunk has been written twice *)
C8_Witness ==
    /\ pc = "await"
    /\ txCount = 2
    /\ Len(chunk) < BLOCK_SIZE
    /\ Last(wire) = wire[Len(wire) - 1]
    /\ Len(Last(wire)) = BLOCK_SIZE + 5

(* C9: on ACK the sender moves to the next chunk and block number with the    *)
(* attempt counter at zero: the counter counts only the current block's NAKs  *)
(* and timeouts, so a block fails only after max_retries + 1 transmissions of *)
(* its own, whatever earlier blocks used up.                                  *)
C9_FreshBudgetPerBlock ==
    /\ []((pc \in {"send", "await"}) => attempt = fails)
    /\ []((pc = "send" /\ txCount = 0) => attempt = 0)
    /\ []((Terminal /\ err[1] = "RetriesExceeded") => txCount = max_retries + 1)
    /\ [][ReadsReply(ACK) =>
              /\ sent' = end
              /\ block_no' = (block_no + 1) % 256
              /\ pc' = "send" => attempt' = 0
         ]_vars

(* Block 2 is on transmission max_retries + 1 after block 1 used retries *)
C9_Witness ==
    /\ pc = "await"
    /\ block_no = 2
    /\ max_retries > 0
    /\ failsBefore > 0
    /\ txCount = max_retries + 1

EotWrites == Cardinality({ i \in DOMAIN wire : wire[i] = <<EOT>> })
EotTimesOut == pc \in {"eot1", "eot2"} /\ left = 0 /\ pc' # pc

(* C10: after the first EOT, ACK gives Done, CAN gives Cancelled, NAK makes   *)
(* the sender write EOT once more, and a timeout or any other byte gives      *)
(* EotNotAcked with no second EOT; after the second EOT only ACK gives Done,  *)
(* and a timeout or any other byte gives EotNotAcked.                         *)
C10_EotSequence ==
    /\ [](pc = "eot1" => (r = << >> /\ EotWrites = 1))
    /\ [](pc = "eot2" => (r = <<NAK>> /\ r2 = << >> /\ EotWrites = 2))
    /\ []((Terminal /\ ret = "True") =>
             (r = <<ACK>> \/ (r = <<NAK>> /\ r2 = <<ACK>>)))
    /\ [][ /\ (pc = "eot1" /\ r' = <<ACK>>) =>
                (pc' = "done" /\ ret' = "True" /\ wire' = wire)
           /\ (pc = "eot1" /\ r' = <<NAK>>) =>
                (pc' = "eot2" /\ ret' = "none" /\ wire' = Append(wire, <<EOT>>))
           /\ (pc = "eot1" /\ r' = <<CAN>>) =>
                (pc' = "done" /\ err' = <<"Cancelled">> /\ wire' = wire)
           /\ (pc = "eot1" /\ (r' \notin {<< >>, <<ACK>>, <<NAK>>, <<CAN>>} \/ EotTimesOut)) =>
                (pc' = "done" /\ ret' = "False" /\ err' = <<"EotNotAcked">> /\ wire' = wire)
           /\ (pc = "eot2" /\ r2' = <<ACK>>) =>
                (pc' = "done" /\ ret' = "True" /\ wire' = wire)
           /\ (pc = "eot2" /\ (r2' \notin {<< >>, <<ACK>>} \/ EotTimesOut)) =>
                (pc' = "done" /\ ret' = "False" /\ err' = <<"EotNotAcked">> /\ wire' = wire)
         ]_vars

(* The first EOT was answered by NAK and the second by ACK *)
C10_Witness == Terminal /\ ret = "True" /\ r = <<NAK>> /\ r2 = <<ACK>>

(* The data packets written so far, and the payload bytes of packet p *)
DataPackets == { wire[i] : i \in { j \in DOMAIN wire : wire[j][1] = SOH } }
Payload(p) == SubSeq(p, 4, BLOCK_SIZE + 3)
LastDataPacket == wire[Len(wire) - EotWrites]

(* C11: a fully acknowledged transfer of 128*k bytes, k >= 1, has written     *)
(* exactly k distinct blocks and the payload of the last one is the last 128  *)
(* file bytes with nothing added; a transfer of 128*k + n bytes, 0 < n < 128, *)
(* has written k + 1 distinct blocks and the payload of the last one is the   *)
(* last n file bytes followed by exactly 128 - n bytes 0x1A.                  *)
C11_BlocksAndPadding ==
    (Terminal /\ ret = "True" /\ total > 0) =>
        LET k == total \div BLOCK_SIZE
            n == total % BLOCK_SIZE
        IN  IF n = 0
            THEN /\ Cardinality(DataPackets) = k
                 /\ Payload(LastDataPacket) = SubSeq(data, total - BLOCK_SIZE + 1, total)
            ELSE /\ Cardinality(DataPackets) = k + 1
                 /\ Payload(LastDataPacket) =
                        SubSeq(data, total - n + 1, total)
                            \o [i \in 1..(BLOCK_SIZE - n) |-> PAD_BYTE]

(* A file of one full block and a short tail was sent and acknowledged, the   *)
(* tail block after a retransmission                                          *)
C11_Witness ==
    /\ Terminal
    /\ ret = "True"
    /\ total = BLOCK_SIZE + TailLen
    /\ WritesOf(LastDataPacket) = 2
    /\ Len(Payload(LastDataPacket)) = BLOCK_SIZE
    /\ Payload(LastDataPacket)[TailLen + 1] = PAD_BYTE

Encoded == wire[1]

(* C13 as claimed: every data packet the block encoder writes is exactly 132  *)
(* bytes long, for every block number 0..255 and every chunk length 0..128.   *)
C13_PacketIs132 ==
    \A i \in DOMAIN wire : wire[i][1] = SOH => Len(wire[i]) = 132

(* C13 as amended: every data packet the block encoder writes is exactly 133  *)
(* bytes long, three header bytes, 128 payload bytes and two CRC bytes, for   *)
(* every block number 0..255 and every chunk length 0..128.                   *)
C13_PacketIs133 ==
    /\ \A i \in DOMAIN wire : wire[i][1] = SOH => Len(wire[i]) = 3 + BLOCK_SIZE + 2
    /\ (pc = "written" /\ Len(data) <= BLOCK_SIZE) => Len(wire) = 1

(* The empty chunk was encoded as block 255 *)
C13_Witness ==
    /\ pc = "written"
    /\ Len(data) = 0
    /\ block_no = 255
    /\ Len(Encoded) = 133

(* C14: every data packet is, in this order, SOH, the block number n, its     *)
(* complement 0xFF - n (the two sum to 0xFF, for n = 0 and n = 255 too), the   *)
(* 128 payload bytes, which are the chunk followed by 0x1A up to 128, then the *)
(* high byte and the low byte of the CRC.                                      *)
C14_PacketLayout ==
    pc = "written" =>
        LET crc == crc16_ccitt(SubSeq(Encoded, 4, BLOCK_SIZE + 3))
        IN  /\ Encoded[1] = SOH
            /\ Encoded[2] = block_no
            /\ Encoded[3] = 255 - block_no
            /\ Encoded[2] + Encoded[3] = 255
            /\ SubSeq(Encoded, 4, 3 + Len(data)) = data
            /\ \A i \in (4 + Len(data))..(BLOCK_SIZE + 3) : Encoded[i] = PAD_BYTE
            /\ Encoded[BLOCK_SIZE + 4] = crc \div 256
            /\ Encoded[BLOCK_SIZE + 5] = crc % 256
            /\ Len(Encoded) = BLOCK_SIZE + 5

(* A short chunk was encoded as block 0, whose complement is 0xFF, with two   *)
(* different CRC bytes                                                        *)
C14_Witness ==
    /\ pc = "written"
    /\ block_no = 0
    /\ Len(data) = TailLen
    /\ Encoded[3] = 255
    /\ Encoded[BLOCK_SIZE + 4] # Encoded[BLOCK_SIZE + 5]

(* C15: the CRC in a packet is the CRC of exactly the 128 payload bytes after *)
(* padding, for every chunk length 0..128: not of the chunk as handed in, and *)
(* not of anything that includes SOH, block number or complement.             *)
C15_CrcOverPaddedPayload ==
    pc = "written" =>
        /\ Len(padded(data)) = BLOCK_SIZE
        /\ Encoded[BLOCK_SIZE + 4] * 256 + Encoded[BLOCK_SIZE + 5]
              = crc16_ccitt(data \o [i \in 1..(BLOCK_SIZE - Len(data)) |-> PAD_BYTE])

(* The empty chunk was encoded: its packet's CRC is not the CRC of no bytes *)
C15_Witness ==
    /\ pc = "written"
    /\ Len(data) = 0
    /\ block_no = 1
    /\ Encoded[BLOCK_SIZE + 4] * 256 + Encoded[BLOCK_SIZE + 5] # crc16_ccitt(data)

(* C16: a chunk longer than 128 bytes is refused by the encoder with an error *)
(* before anything is written to the transport, and the transfer loop never   *)
(* hands the encoder a chunk longer than 128 bytes, whatever the file length. *)
C16_ChunkTooLarge ==
    /\ [](pc = "send" => Len(chunk) <= BLOCK_SIZE)
    /\ [](err = <<"ValueError">> => (Terminal /\ ret = "raise" /\ wire = << >>))
    /\ [](\A i \in DOMAIN wire : Len(wire[i]) <= BLOCK_SIZE + 5)
    /\ [][(pc = "call" /\ Len(data) > BLOCK_SIZE) =>
              (pc' = "done" /\ err' = <<"ValueError">> /\ wire' = wire)]_vars

(* A chunk of 129 bytes was refused *)
C16_Witness ==
    /\ Terminal
    /\ err = <<"ValueError">>
    /\ Len(data) = BLOCK_SIZE + 1
    /\ block_no = 255
    /\ wire = << >>

(* The bits of byte x, most significant first, and of a byte sequence *)
ByteBits(x) == [i \in 1..8 |-> (x \div (2 ^ (8 - i))) % 2]

RECURSIVE SeqBits(_)
SeqBits(q) == IF q = << >> THEN << >> ELSE ByteBits(Head(q)) \o SeqBits(Tail(q))

(* The remainder of the division of the bits, taken as a polynomial over      *)
(* GF(2) with the first bit the highest coefficient, by x^16 + x^12 + x^5 + 1 *)
PolyStep(reg, bit) ==
    Bind(reg * 2 + bit, LAMBDA t : IF t >= 65536 THEN Xor16(t - 65536, 4129) ELSE t)

RECURSIVE PolyRemainder(_, _, _, _)
PolyRemainder(bits, lo, hi, reg) ==
    IF lo > hi THEN reg
    ELSE IF lo = hi THEN PolyStep(reg, bits[lo])
    ELSE Bind(PolyRemainder(bits, lo, (lo + hi) \div 2, reg),
              LAMBDA u : PolyRemainder(bits, ((lo + hi) \div 2) + 1, hi, u))

(* CRC-16 with polynomial 0x1021, initial value 0, nothing reflected and no   *)
(* final XOR: the remainder of the message followed by sixteen zero bits      *)
ReferenceCrc(q) ==
    Bind(SeqBits(q) \o [i \in 1..16 |-> 0], LAMBDA bits : PolyRemainder(bits, 1, Len(bits), 0))

(* C17: crc16 of the empty buffer is 0x0000 and of "123456789" is 0x31C3; for *)
(* every input the result is the MSB-first CRC with polynomial 0x1021,        *)
(* initial value 0, no reflection and no final XOR, and lies in 0..0xFFFF.    *)
C17_CrcXmodem ==
    pc = "crc_done" =>
        /\ ret \in 0..65535
        /\ ret = ReferenceCrc(data)
        /\ data = << >> => ret = 0
        /\ data = Check9 => ret = 12739

(* The check value of "123456789" has been computed *)
C17_Witness == pc = "crc_done" /\ data = Check9 /\ ret = 12739

(* C18: once the serial port has been opened it is closed on every way out  *)
(* of main: after success, after every Failed outcome, after Cancelled, and   *)
(* after a fault or interrupt during the transfer or during the read loop     *)
(* that follows it.                                                           *)
C18_PortClosedOnExit ==
    /\ main_pc = "exited" =>
          /\ ser # "open"
          /\ ser = "unopened" <=> exit_code \in {"1", "2"}
    /\ main_pc \in {"transfer", "tail"} => ser = "open"

(* The transfer succeeded and the read loop after it was interrupted *)
C18_Witness ==
    /\ main_pc = "exited"
    /\ ret = "True"
    /\ exit_code = "KeyboardInterrupt"
    /\ echoed # << >>
    /\ ser = "closed"

(* C19: a Failed or Cancelled outcome after every data block has been         *)
(* acknowledged, in the EOT phase, is returned to the caller as something      *)
(* other than the False that a failure before all blocks were delivered        *)
(* returns.                                                                    *)
C19_EotFailureDistinct ==
    (Terminal /\ total > 0 /\ sent = total /\ ret # "True") => ret # "False"

(* C20: for every image, the empty one and ones full of garbage included,    *)
(* parse_flash returns exactly one report per table entry, in the order of    *)
(* the table; an error on one entry (address out of range, section too small, *)
(* invalid descriptor) neither ends the scan nor skips a later entry.         *)
C20_OneReportPerEntry ==
    /\ [](pc = "parse" => Len(results) = section_i)
    /\ [](\A k \in DOMAIN results : results[k].name = FLASH_SECTIONS[k].name)
    /\ [](pc = "parsed" => Len(results) = Len(FLASH_SECTIONS))
    /\ [][pc = "parse" /\ Len(results) < Len(FLASH_SECTIONS) =>
              /\ pc' = "parse"
              /\ Len(results') = Len(results) + 1
              /\ SubSeq(results', 1, Len(results)) = results]_vars

(* An image that ends inside the Boot Area was scanned to the end: a section  *)
(* too small, then entries beyond the image                                   *)
C20_Witness ==
    /\ pc = "parsed"
    /\ flash_data.len = 65536 + 8
    /\ Len(results) = 8
    /\ "error" \in DOMAIN results[3].descriptor
    /\ "error" \in DOMAIN results[4]
    /\ results[8].name = "Unknown"

(* The reports made so far of entries whose address is beyond the image, and   *)
(* of those whose address is inside it                                        *)
BeyondReports == { k \in DOMAIN results : FLASH_SECTIONS[k].addr >= flash_data.len }
InsideReports == DOMAIN results \ BeyondReports

(* C21: for any image, an entry whose address is at or beyond the end of the   *)
(* image gets a report with the error "Address beyond flash data size", no    *)
(* descriptor and no data, and the scan goes on; an entry whose address is    *)
(* inside the image never gets that error.                                    *)
C21_AddressOutOfRange ==
    /\ [](\A k \in BeyondReports :
            /\ DOMAIN results[k] = {"name", "addr", "error"}
            /\ results[k].error = "Address beyond flash data size"
            /\ results[k].addr = <<"0", "x">> \o Hex8(FLASH_SECTIONS[k].addr))
    /\ [](\A k \in InsideReports :
            /\ "error" \notin DOMAIN results[k]
            /\ {"descriptor", "data", "data_len"} \subseteq DOMAIN results[k])
    /\ [][(pc = "parse" /\ section_i < Len(FLASH_SECTIONS)
            /\ FLASH_SECTIONS[section_i + 1].addr >= flash_data.len) =>
              /\ pc' = "parse"
              /\ section_i' = section_i + 1
              /\ Len(results') = section_i']_vars

(* An image that ends exactly where the Boot Area begins: the entries before   *)
(* it are inside, the Boot Area and all after it are beyond                   *)
C21_Witness ==
    /\ pc = "parsed"
    /\ flash_data.len = 65536
    /\ BeyondReports = 3..8
    /\ InsideReports = {1, 2}
    /\ results[3].error = "Address beyond flash data size"

(* The two sizes and the signature in the sixteen bytes the image carries at   *)
(* the address of entry k, read off the bytes                                 *)
HeadSize1(k) == flash_data.head[k][1] + 256 * flash_data.head[k][2]
HeadSize2(k) == flash_data.head[k][3] + 256 * flash_data.head[k][4]
HeadValid(k) == HeadSize1(k) = HeadSize2(k) /\ flash_data.head[k][5] = 90

(* The reports of entries without a size in the table whose sixteen header     *)
(* bytes lie inside the image and read size1 = size2, signature 'Z'           *)
DerivedReports ==
    { k \in DOMAIN results : /\ FLASH_SECTIONS[k].size = << >>
                             /\ FLASH_SECTIONS[k].addr + 16 <= flash_data.len
                             /\ HeadValid(k) }

(* C22 as stated: the data of such a report is always size1 bytes long *)
C22_DerivedSizeExact ==
    \A k \in DerivedReports :
        /\ results[k].size = <<"0", "x">> \o HexDigits(HeadSize1(k))
        /\ results[k].data_len = HeadSize1(k)

(* C22: for an entry without a size whose header reads size1 = size2 = N and   *)
(* signature 'Z', the report's size is N and its data are the bytes from the   *)
(* address up to N further or up to the end of the image, whichever comes     *)
(* first: N bytes when the image holds them, for N below and above 16.        *)
C22_DerivedSizeClamped ==
    \A k \in DerivedReports :
        LET N == HeadSize1(k)
            addr == FLASH_SECTIONS[k].addr
        IN  /\ results[k].size = <<"0", "x">> \o HexDigits(N)
            /\ results[k].descriptor.size1 = N
            /\ results[k].data.from = addr
            /\ results[k].data.to = Min(addr + N, flash_data.len)
            /\ results[k].data_len = Min(N, flash_data.len - addr)
            /\ addr + N <= flash_data.len => results[k].data_len = N

(* A whole image with App1 of 4660 bytes and App2 of 8 *)
C22_Witness ==
    /\ pc = "parsed"
    /\ flash_data.len = 524288
    /\ {5, 6} \subseteq DerivedReports
    /\ HeadSize1(5) = 4660 /\ results[5].data_len = 4660
    /\ HeadSize1(6) = 8 /\ results[6].data_len = 8
    /\ results[5].size = <<"0", "x", "1", "2", "3", "4">>

(* The length of the slice first taken for entry k: the table's size, or 16  *)
(* without one, cut at the end of the image                                   *)
FirstLen(k) ==
    Min(IF FLASH_SECTIONS[k].size # << >> THEN FLASH_SECTIONS[k].size[1] ELSE 16,
        flash_data.len - FLASH_SECTIONS[k].addr)

(* C23: when the slice first taken for an entry inside the image is shorter    *)
(* than 16 bytes, because the image ends there or because the table's size is *)
(* below 16, the report's descriptor is the error "Section too small" with    *)
(* the slice's length and none of the descriptor's fields; otherwise the      *)
(* descriptor holds the fields read from the first 16 bytes.                  *)
C23_SectionTooSmall ==
    \A k \in InsideReports :
        IF FirstLen(k) < 16
        THEN results[k].descriptor = [error |-> <<"Section too small", FirstLen(k)>>]
        ELSE /\ DOMAIN results[k].descriptor =
                    {"size1", "size2", "signature", "address", "raw_header", "valid"}
             /\ results[k].descriptor.size1 = HeadSize1(k)
             /\ results[k].descriptor.size2 = HeadSize2(k)
             /\ results[k].descriptor.signature = flash_data.head[k][5]
             /\ results[k].descriptor.valid = HeadValid(k)
             /\ Len(results[k].descriptor.raw_header) = 16
             /\ \A n \in 1..16 :
                    LET group == results[k].descriptor.raw_header[n]
                        value(c) == CHOOSE d \in 0..15 : LowerHexChars[d + 1] = c
                    IN  16 * value(group[1]) + value(group[2]) = flash_data.head[k][n]

(* An image that ends eight bytes into App1's header: the Boot Area is too     *)
(* small by the table's size, App1 by the end of the image, and the first     *)
(* entry has its descriptor                                                   *)
C23_Witness ==
    /\ pc = "parsed"
    /\ flash_data.len = 98288 + 8
    /\ results[3].descriptor = [error |-> <<"Section too small", 8>>]
    /\ results[5].descriptor = [error |-> <<"Section too small", 8>>]
    /\ "valid" \in DOMAIN results[1].descriptor

(* The size a report shows; a report without one shows none *)
ShownSize(k) == IF "size" \in DOMAIN results[k] THEN results[k].size ELSE <<"Unknown">>

(* The size C24 states for the report of entry k *)
StatedSize(k) ==
    IF FLASH_SECTIONS[k].size # << >>
    THEN <<"0", "x">> \o HexDigits(FLASH_SECTIONS[k].size[1])
    ELSE IF FLASH_SECTIONS[k].addr + 16 <= flash_data.len /\ HeadValid(k)
         THEN <<"0", "x">> \o HexDigits(HeadSize1(k))
         ELSE <<"Unknown">>

(* C24 as stated: every report shows the stated size *)
C24_ResolvedSizeEveryReport == \A k \in DOMAIN results : ShownSize(k) = StatedSize(k)

(* C24: the report of an entry inside the image shows the table's size when    *)
(* the table has one, whatever the descriptor reads; size1 when the table has *)
(* none and the descriptor is valid; "Unknown" exactly when the table has     *)
(* none and the descriptor is invalid or an error.  The report of an entry    *)
(* beyond the image shows no size at all.                                     *)
C24_ResolvedSize ==
    /\ \A k \in InsideReports :
          /\ "size" \in DOMAIN results[k]
          /\ results[k].size = StatedSize(k)
          /\ results[k].size = <<"Unknown">> <=>
                /\ FLASH_SECTIONS[k].size = << >>
                /\ \/ "error" \in DOMAIN results[k].descriptor
                   \/ ~results[k].descriptor.valid
    /\ \A k \in BeyondReports : "size" \notin DOMAIN results[k]

(* A whole image: the first entry keeps the table's 0xC10 though its valid     *)
(* descriptor reads 4660, App1 with the two sizes differing is Unknown, App2  *)
(* takes 8 from its descriptor                                                *)
C24_Witness ==
    /\ pc = "parsed"
    /\ flash_data.len = 524288
    /\ results[1].descriptor.valid /\ results[1].descriptor.size1 = 4660
    /\ results[1].size = <<"0", "x", "C", "1", "0">>
    /\ ~results[5].descriptor.valid /\ results[5].size = <<"Unknown">>
    /\ results[6].descriptor.valid /\ results[6].size = <<"0", "x", "8">>

(* The reports with a descriptor whose valid flag is set *)
ValidReports ==
    { k \in DOMAIN results : /\ "descriptor" \in DOMAIN results[k]
                             /\ "valid" \in DOMAIN results[k].descriptor
                             /\ results[k].descriptor.valid }

(* The reports save_sections_to_files tried to write, whether or not the       *)
(* writing went well: each try prints one line naming the section             *)
TriedReports ==
    { k \in DOMAIN results :
        \E n \in DOMAIN printed :
            /\ printed[n][1] \in {"Saved section", "Error saving section"}
            /\ printed[n][2] = results[k].name }

(* C25: a descriptor's valid flag is set exactly when size1 = size2 and byte 4 *)
(* is 'Z'; save_sections_to_files writes a file for a report if and only if   *)
(* the report has a descriptor whose valid flag is set, never for a report    *)
(* with an error or with an invalid descriptor.                               *)
C25_SaveOnlyValid ==
    /\ \A k \in InsideReports :
          "valid" \in DOMAIN results[k].descriptor =>
              /\ results[k].descriptor.valid <=>
                    /\ results[k].descriptor.size1 = results[k].descriptor.size2
                    /\ results[k].descriptor.signature = 90
              /\ results[k].descriptor.valid <=> HeadValid(k)
    /\ pc \in {"save", "saved"} =>
          /\ TriedReports = ValidReports \cap 1..save_i
          /\ \A n \in DOMAIN written :
                \E k \in ValidReports :
                    /\ written[n].filename = filename_of(results[k].name)
                    /\ written[n].data = results[k].data
    /\ pc \in {"parse", "parsed"} => (written = << >> /\ printed = << >>)

(* A whole image saved without a failure: the valid ones are written, Radar    *)
(* Config under its lower-case name; the Boot Area, too small, and App1, its  *)
(* two sizes differing, are not                                               *)
C25_Witness ==
    /\ pc = "saved"
    /\ flash_data.len = 524288
    /\ ValidReports = {1, 2, 4, 6, 7, 8}
    /\ "error" \in DOMAIN results[3].descriptor
    /\ ~results[5].descriptor.valid
    /\ Len(written) = 6
    /\ written[3].filename = <<"d", "u", "m", "p", "_", "r", "a", "d", "a", "r", "_",
                               "c", "o", "n", "f", "i", "g", ".", "b", "i", "n">>
    /\ written[3].data = results[4].data

(* The lines printed for a write that went well, and for one that failed *)
SavedLines == { n \in DOMAIN printed : printed[n][1] = "Saved section" }
ErrorLines == { n \in DOMAIN printed : printed[n][1] = "Error saving section" }

(* C26: a write that fails is recorded, by a line naming the section, and does *)
(* not end the saving: the loop goes on to every later report, every valid    *)
(* one is tried, and saved_count is the number of writes that went well.      *)
C26_WriteFailureIsLocal ==
    /\ [](pc \in {"save", "saved"} =>
            /\ saved_count = Cardinality(SavedLines)
            /\ saved_count = Len(written)
            /\ Cardinality(SavedLines) + Cardinality(ErrorLines)
                  = Cardinality(ValidReports \cap 1..save_i))
    /\ [](pc = "saved" => (save_i = Len(results) /\ TriedReports = ValidReports))
    /\ [][(pc = "save" /\ save_i < Len(results)) =>
              /\ pc' = "save"
              /\ save_i' = save_i + 1]_vars

(* The first write failed and two later ones went well *)
C26_Witness ==
    /\ pc = "saved"
    /\ 1 \in ErrorLines
    /\ {2, 3} \subseteq SavedLines
    /\ saved_count = 2
    /\ Cardinality(ValidReports) = 3

(* C27: the closing line "No sections with valid signatures found to save."  *)
(* is printed only when no report has a valid descriptor; when some report    *)
(* has one and every write failed, the closing line is a different one.       *)
C27_NoneValidatedDistinct ==
    (pc = "saved" /\ Last(printed) = <<"No sections with valid signatures found to save.">>)
        => ValidReports = {}

(* C28: parse_app_descriptor returns for every input: for one shorter than 16 *)
(* bytes the error "Insufficient data for header" with the input's length,    *)
(* for one of 16 bytes or more, whatever they are, a descriptor and no error, *)
(* its valid flag unset unless the two sizes agree and the signature is 'Z'.  *)
C28_DescriptorTotal ==
    /\ [](pc = "descriptor_done" =>
            IF Len(data) < 16
            THEN ret = [error |-> <<"Insufficient data for header", Len(data)>>]
            ELSE /\ DOMAIN ret = {"size1", "size2", "signature", "address",
                                  "raw_header", "valid"}
                 /\ ret.valid \in BOOLEAN
                 /\ ret.valid <=> /\ data[1] + 256 * data[2] = data[3] + 256 * data[4]
                                  /\ data[5] = 90)
    /\ [][pc = "descriptor" => pc' = "descriptor_done"]_vars

(* Sixteen bytes of erased flash gave a descriptor that is not valid *)
C28_Witness ==
    /\ pc = "descriptor_done"
    /\ data = [k \in 1..16 |-> 255]
    /\ "error" \notin DOMAIN ret
    /\ ret.valid = FALSE
    /\ ret.size1 = 65535

(* C29: when xmodem_crc_send fails because the receiver never asked for CRC   *)
(* mode, main returns 2; main returns 3 only for a transfer that failed after *)
(* the handshake.                                                             *)
C29_HandshakeFailureExits2 ==
    (main_pc = "exited" /\ ret = "False" /\ exit_code \in {"0", "1", "2", "3"}) =>
        /\ err = <<"NoHandshake">> => exit_code = "2"
        /\ exit_code = "3" => err # <<"NoHandshake">>

(* C30: once xmodem_crc_send has returned True, main eventually returns 0,    *)
(* unless it is interrupted or the port fails first.                          *)
C30_SuccessReturns0 == (ret = "True") ~> (exit_code = "0" \/ exit_code \in Faults)

(* A byte that is none of ACK, NAK, CAN, as r holds it *)
NoiseBytes == { <<x>> : x \in RxBytes \ {ACK, NAK, CAN} }

(* C31: while send_block waits for the reply to a block, a byte other than    *)
(* ACK, NAK or CAN, a 'C' included, is dropped: nothing is written, attempt,  *)
(* block_no and sent stay as they are, the wait goes on, and its window is    *)
(* per_try_timeout again.                                                    *)
C31_NoiseDiscarded ==
    [][(pc = "await" /\ r' \in NoiseBytes /\ (r' # r \/ left' # left - 1)) =>
          /\ pc' = "await"
          /\ left' = per_try_timeout
          /\ wire' = wire
          /\ attempt' = attempt
          /\ block_no' = block_no
          /\ sent' = sent
          /\ fails' = fails
          /\ txCount' = txCount
          /\ ret' = ret]_vars

(* A 'C' was read one tick into the wait for the first block's reply, and the *)
(* wait has its whole window again                                            *)
C31_Witness ==
    /\ pc = "await"
    /\ r = <<CHAR_C>>
    /\ left = per_try_timeout
    /\ hsElapsed < HsCap
    /\ Len(wire) = 1
    /\ attempt = 0
    /\ sent = 0

(* The places in wire of the EOT bytes and of the data packets *)
EotPlaces == { i \in DOMAIN wire : wire[i] = <<EOT>> }
PacketPlaces == { i \in DOMAIN wire : wire[i][1] = SOH /\ Len(wire[i]) > 1 }

(* C32: nothing is written before 'C' has been read; EOT is written only once *)
(* every chunk of the file has been acknowledged; it is written twice at      *)
(* most, the second time only after a NAK answered the first; no data packet  *)
(* is written after an EOT, and nothing at all after xmodem_crc_send ended.   *)
C32_WriteOrder ==
    /\ [](wire # << >> => b = <<CHAR_C>>)
    /\ [](InHandshake => wire = << >>)
    /\ [](EotPlaces # {} => sent = total)
    /\ [](Cardinality(EotPlaces) <= 2)
    /\ [](Cardinality(EotPlaces) = 2 => r = <<NAK>>)
    /\ [](\A i \in EotPlaces : \A j \in PacketPlaces : j < i)
    /\ [](DOMAIN wire = EotPlaces \cup PacketPlaces)
    /\ [][wire' # wire /\ Last(wire') = <<EOT>> =>
              (pc = "eot" \/ (pc = "eot1" /\ r' = <<NAK>>))]_vars
    /\ [][wire' # wire /\ Last(wire') # <<EOT>> => pc = "send"]_vars
    /\ [][Terminal => wire' = wire]_vars

(* Two blocks, then EOT, a NAK, EOT again, and the ACK *)
C32_Witness ==
    /\ Terminal
    /\ ret = "True"
    /\ PacketPlaces = {1, 2}
    /\ EotPlaces = {3, 4}
    /\ wire[1] # wire[2]

(* The blocks acknowledged so far *)
BlocksAcked == (sent + BLOCK_SIZE - 1) \div BLOCK_SIZE

(* A packet has been written and send_block has not yet made an ACK, a NAK or *)
(* a timeout of its reply                                                     *)
Outstanding == pc = "await" \/ (Terminal /\ err = <<"Cancelled">> /\ ret = "False")

(* C33: one packet at most is outstanding.  Every packet written is answered  *)
(* by exactly one of ACK, NAK and timeout before the next is written, and the *)
(* packet of the next block is written only after an ACK was read in answer   *)
(* to the latest writing of the current one.                                  *)
C33_LockStep ==
    /\ [](txCount - fails = IF Outstanding THEN 1 ELSE 0)
    /\ [](Cardinality(PacketPlaces) = BlocksAcked + failsBefore + txCount)
    /\ [](pc = "send" => r \in {<< >>, <<ACK>>, <<NAK>>})
    /\ [](pc = "send" /\ wire # << >> =>
            IF r = <<ACK>> THEN Last(wire)[2] = (block_no - 1) % 256
                           ELSE Last(wire)[2] = block_no)
    /\ [][wire' # wire /\ Last(wire') # <<EOT>> => (pc = "send" /\ ~Outstanding)]_vars
    /\ [][block_no' # block_no =>
              /\ pc = "await"
              /\ r' = <<ACK>>
              /\ Last(wire)[2] = block_no
              /\ block_no' = (block_no + 1) % 256]_vars

(* The first block was written three times, answered by a timeout, a NAK and  *)
(* an ACK, and the second block is out                                        *)
C33_Witness ==
    /\ pc = "await"
    /\ Len(wire) = 4
    /\ wire[1] = wire[2] /\ wire[2] = wire[3] /\ wire[3] # wire[4]
    /\ failsBefore = 2
    /\ block_no = 2
    /\ txCount = 1

(* C34: sent changes only when a block is acknowledged, and then grows by the *)
(* length of that chunk before padding: after j accepted blocks it is          *)
(* min(128 * j, total).  It never decreases, never exceeds the file's length, *)
(* and a NAK, a timeout, a dropped byte, a CAN and a failure leave it alone.  *)
C34_OffsetCounter ==
    /\ [](sent <= total)
    /\ [](~InHandshake => sent = Min(BLOCK_SIZE * ((block_no - 1) % 256), total))
    /\ [][sent' # sent =>
              /\ pc = "await"
              /\ r' = <<ACK>>
              /\ sent' = sent + Len(chunk)
              /\ Len(chunk) \in 1..BLOCK_SIZE
              /\ Len(chunk) < BLOCK_SIZE => sent' = total]_vars
    /\ [][(pc = "await" /\ r' # <<ACK>>) => sent' = sent]_vars
    /\ [][pc' = "done" => sent' = sent]_vars

(* A file of one block and a tail, both accepted, the first after a failure *)
C34_Witness ==
    /\ pc = "eot"
    /\ total = BLOCK_SIZE + TailLen
    /\ sent = total
    /\ failsBefore > 0
    /\ block_no = 3

(* C35: parse_flash leaves FLASH_SECTIONS as it is: after any calls, a size   *)
(* derived from a descriptor or not, every entry has the name, address, size  *)
(* (None stays None) and RAM address it was written with, so that what a call *)
(* returns for an image is what the first call would have returned for it.    *)
C35_TableUnchanged ==
    /\ [](flash_sections = FLASH_SECTIONS)
    /\ [][flash_sections' = flash_sections]_vars
    /\ [](\A k \in DOMAIN results :
            results[k] = IF FLASH_SECTIONS[k].addr >= flash_data.len
                         THEN beyond_report(FLASH_SECTIONS[k])
                         ELSE section_report(flash_data, FLASH_SECTIONS[k]))

(* The second call has returned; it found App1's header invalid and App2's     *)
(* valid, and the table still has no size for either                          *)
C35_Witness ==
    /\ pc = "parsed"
    /\ decodes = 2
    /\ flash_data.len = 524288
    /\ results[5].size = <<"Unknown">>
    /\ results[6].size = <<"0", "x", "1", "2", "3", "4">>
    /\ flash_sections[5].size = << >>
    /\ flash_sections[6].size = << >>

(* C36: the ACK that send_block takes as the acknowledgement of block_no was  *)
(* given by the receiver in answer to a packet of that block: the late answer *)
(* to an earlier copy of a block that was written again after a timeout is    *)
(* never taken as the acknowledgement of a later block.                       *)
C36_AckAnswersItsBlock ==
    [][replies_read' = replies_read + 1 => wire[replies_read + 1][2] = block_no]_vars

(* The packets that were acknowledged, once all of them are: of the copies of *)
(* a packet written one after another, the last.  Their payloads from place i *)
(* on, one after another, and their block numbers                             *)
IsAckedPlace(i) ==
    /\ i \in PacketPlaces
    /\ (i + 1 \in PacketPlaces => wire[i + 1] # wire[i])

RECURSIVE AckedPayloads(_)
AckedPayloads(i) ==
    IF i > Len(wire) THEN << >>
    ELSE (IF IsAckedPlace(i) THEN Payload(wire[i]) ELSE << >>) \o AckedPayloads(i + 1)

RECURSIVE AckedNumbers(_)
AckedNumbers(i) ==
    IF i > Len(wire) THEN << >>
    ELSE (IF IsAckedPlace(i) THEN <<wire[i][2]>> ELSE << >>) \o AckedNumbers(i + 1)

(* C37: when xmodem_crc_send returns True, the payloads of the acknowledged   *)
(* blocks, in the order of their acknowledgement and cut to the file's        *)
(* length, are the file: no chunk is left out, taken twice or out of place.  *)
C37_AcceptedIsFile ==
    (Terminal /\ ret = "True") =>
        /\ Len(AckedPayloads(1)) = BLOCK_SIZE * BlocksAcked
        /\ Len(AckedPayloads(1)) >= total
        /\ Len(AckedPayloads(1)) < total + BLOCK_SIZE
        /\ SubSeq(AckedPayloads(1), 1, total) = data
        /\ AckedNumbers(1) = [k \in 1..BlocksAcked |-> k % 256]

(* A block and a tail got through, each written more than once *)
C37_Witness ==
    /\ Terminal
    /\ ret = "True"
    /\ total = BLOCK_SIZE + TailLen
    /\ Cardinality(PacketPlaces) = 4
    /\ wire[1] = wire[2]
    /\ wire[3] = wire[4]
    /\ SubSeq(AckedPayloads(1), 1, total) = data

(* C38: for a file of no bytes, once 'C' has been read no data packet is      *)
(* written: the sender goes straight to send_eot, whatever it writes is an    *)
(* EOT byte, and it returns True if and only if the EOT is acknowledged.      *)
C38_EmptyFile ==
    /\ [](total = 0 =>
            /\ PacketPlaces = {}
            /\ \A i \in DOMAIN wire : wire[i] = <<EOT>>
            /\ ~InHandshake => pc \in {"eot", "eot1", "eot2", "done"}
            /\ pc \in {"eot1", "eot2"} => wire[1] = <<EOT>>
            /\ (Terminal /\ wire = << >>) => ret = "False"
            /\ (Terminal /\ wire # << >>) =>
                  (ret = "True" <=> (r = <<ACK>> \/ (r = <<NAK>> /\ r2 = <<ACK>>))))
    /\ [][(total = 0 /\ InHandshake /\ pc' \notin HsPcs \cup {"done"}) =>
              (b = <<CHAR_C>> /\ pc' = "eot")]_vars

(* The empty file sent: one EOT, acknowledged *)
C38_Witness ==
    /\ total = 0
    /\ Terminal
    /\ ret = "True"
    /\ wire = << <<EOT>> >>
    /\ r = <<ACK>>

(* The reports of entries inside the image for which the table has a size *)
SizedReports == { k \in InsideReports : FLASH_SECTIONS[k].size # << >> }

(* flash_data[addr : addr + size] for entry k, by its ends *)
SizedSlice(k) ==
    [from |-> FLASH_SECTIONS[k].addr,
     to   |-> Min(FLASH_SECTIONS[k].addr + FLASH_SECTIONS[k].size[1], flash_data.len)]

(* C39: the data of an entry inside the image for which the table has a size  *)
(* are the bytes from its address up to that size further, or to the end of   *)
(* the image, whatever its descriptor reads: where the first 16 bytes are a   *)
(* valid descriptor with another size1, the report still counts as valid and *)
(* save_sections_to_files writes the table's size of bytes, not size1.        *)
C39_SizedDataIgnoresDescriptor ==
    /\ \A k \in SizedReports :
          /\ results[k].data = SizedSlice(k)
          /\ results[k].data_len =
                Min(FLASH_SECTIONS[k].size[1], flash_data.len - FLASH_SECTIONS[k].addr)
          /\ results[k].size = <<"0", "x">> \o HexDigits(FLASH_SECTIONS[k].size[1])
          /\ (FirstLen(k) >= 16 /\ HeadValid(k)) =>
                (results[k].descriptor.valid /\ k \in ValidReports)
    /\ \A n \in DOMAIN written : \A k \in SizedReports :
          written[n].filename = filename_of(results[k].name) =>
              /\ written[n].data = SizedSlice(k)
              /\ SliceLen(written[n].data) =
                    Min(FLASH_SECTIONS[k].size[1], flash_data.len - FLASH_SECTIONS[k].addr)
    /\ pc = "saved" =>
          \A k \in SizedReports \cap ValidReports :
              \/ \E n \in SavedLines : printed[n][2] = results[k].name
                                        /\ printed[n][4] = results[k].data_len
              \/ \E n \in ErrorLines : printed[n][2] = results[k].name

(* The first entry, 0xC10 bytes by the table, holds a valid descriptor that   *)
(* reads 8: 0xC10 bytes were written for it                                   *)
C39_Witness ==
    /\ pc = "saved"
    /\ flash_data.len = 524288
    /\ results[1].descriptor.valid
    /\ results[1].descriptor.size1 = 8
    /\ written # << >>
    /\ written[1].filename = filename_of("ota_jump_code")
    /\ SliceLen(written[1].data) = 3088

(* C40: crc16_ccitt over the 128 payload bytes of a packet followed by the    *)
(* two CRC bytes send_block appends, high byte first, is 0x0000: a receiver   *)
(* that runs the same CRC over payload and trailer accepts every packet.      *)
C40_ResidueIsZero ==
    pc = "written" =>
        /\ Len(Encoded) = BLOCK_SIZE + 5
        /\ crc16_ccitt(SubSeq(Encoded, 4, BLOCK_SIZE + 5)) = 0
        /\ crc16_ccitt(Payload(Encoded)) = 256 * Encoded[BLOCK_SIZE + 4] + Encoded[BLOCK_SIZE + 5]

(* A whole block of data was encoded, with a CRC that is not zero itself *)
C40_Witness ==
    /\ pc = "written"
    /\ Len(data) = BLOCK_SIZE
    /\ Payload(Encoded) = data
    /\ crc16_ccitt(data) # 0
    /\ crc16_ccitt(SubSeq(Encoded, 4, BLOCK_SIZE + 5)) = 0

====
